---- MODULE Spec2Model ----
(***************************************************************************)
(* Solidity-IDE: wallet connection (hooks/useWallet.ts), deployment        *)
(* (utils/contractDeployment.ts, App.handleDeploy), contract registry      *)
(* (hooks/useContract.ts) and explorer verification                        *)
(* (utils/contractVerification.ts).                                        *)
(*                                                                         *)
(* Every await of the TypeScript code is a step boundary: the code between *)
(* two awaits (with the React effects its state updates trigger) is one    *)
(* action.  Four specifications share the module: Spec (wallet),           *)
(* SpecRegistry (registry), SpecDeploy (deployment) and SpecVerify         *)
(* (verification); each leaves the variables of the others alone.          *)
(***************************************************************************)
EXTENDS Integers, Sequences, FiniteSets, TLC

VARIABLES
    \* ---- wallet provider (window.ethereum) ----
    ethereum,            \* "none" | "other" | "metamask"
    providerChain,       \* chain the wallet is on
    \* ---- useWallet state ----
    address, isConnected, chainId, signer, isLoading, error,
    \* ---- localStorage wallet flags ----
    ls_wallet_connected, ls_wallet_address,
    \* ---- positions of the async functions of useWallet ----
    connectPC,           \* "idle" | "connectWallet" | "eth_chainId"
    arPC,                \* autoReconnect: "start" | "eth_accounts" | "eth_chainId" | "getSigner" | "done"
    \* ---- history of the connect() call in progress / last finished ----
    connectPre,          \* ConnectionState and flags when connect() was called
    connectClean,        \* no other handler ran since connect() was called
    reported,            \* account the provider reported to the last connectWallet()
    walletLast,          \* label of the last wallet step
    \* ---- useContract registry state and its localStorage key ----
    deployedContracts,       \* list of DeployedContract records
    ls_deployed_contracts,   \* value stored under 'deployed_contracts'
    regPC,                   \* "mount" | "appEffect" | "ready"
    selectedChainId,         \* App state: chain picked in the UI
    now,                     \* clock; also numbers the transactions
    \* ---- one deployment in flight ----
    dpPC,                \* "idle" | "estimateGas" | "deploy" | "waitForDeployment" | "getNetwork"
    dpVariant,           \* "app" | "hook" | "estimation"
    dpChain,             \* chain the caller resolves the record's network from
    dpTx,                \* transaction submitted by this invocation, 0 if none
    dpTxChain,           \* chain the wallet was on when it sent dpTx
    dpAddress,           \* address of the deployed contract, 0 if none
    \* ---- history of the registry and the deployments ----
    txSubmitted,         \* transactions submitted by the current invocation
    invocations,         \* deploy invocations so far
    totalTx,             \* deployment transactions submitted so far
    preReload,           \* registry list when the page was reloaded
    lastAdded,           \* record of the last saveDeployedContract call
    regLast,             \* label of the last registry step
    \* ---- one verifyContract / checkVerificationStatus call ----
    apiKeySet,           \* VITE_ETHERSCAN_API_KEY is configured
    vfFn,                \* "none" | "verifyContract" | "checkVerificationStatus"
    vfChain,             \* its chainId argument
    vfPC,                \* "idle" | "request" | "sleep" | "returned" | "threw"
    attempt,             \* loop counter of the retry loop
    httpAttempts,        \* HTTP requests made by the call
    sleeps,              \* delays the call has slept, in order
    outcomes,            \* what each request of the call ended in
    vfError,             \* the error thrown and the last underlying failure
    vfAddress,           \* verifyContract: params.contractAddress
    vfGuid,              \* checkVerificationStatus: its guid argument
    vfText,              \* result text of the last response with status '1'
    vfResult,            \* the VerificationResult the call returned
    \* ---- one pollVerificationStatus call ----
    pollPC,              \* "idle" | "call" | "await" | "sleep" | "returned" | "threw"
    pollGuid, pollChain, \* its guid and chainId arguments
    maxAttempts,         \* its maxAttempts argument
    pollAttempt,         \* loop counter of the polling loop
    pollCalls,           \* calls of checkVerificationStatus it has made
    pollSleeps,          \* times it has slept pollInterval
    pollResult,          \* the VerificationResult it returned
    pollSeen,            \* status of each result its calls have returned
    \* ---- one switchNetwork call of useWallet ----
    swPC,                \* "idle" | "switch" | "addChain"
    swTarget,            \* its newChainId argument
    requests,            \* provider requests the call has issued, in order
    \* ---- React's queue of state updaters of deployedContracts ----
    updateQueue,         \* updaters passed to setDeployedContracts, not yet run
    expected,            \* records added and not removed, in call order
    lastBatch,           \* updaters the last render ran
    \* ---- verification status kept by useContract ----
    verificationStatus,  \* the Map: contract address -> VerificationResult
    vhPC,                \* verifyContractHandler: "idle" | "await"
    \* ---- handlers registered with the provider ----
    listeners,           \* per event: handlers of useWallet now registered
    lePC,                \* listener effect: "pending" | "registered" | "noProvider"
    \* ---- what the state deployedContracts holds ----
    deployedShape,       \* "array", or "object" for a value that is no array
    renderError,         \* a state updater threw: the page shows the error boundary
    \* ---- useDarkMode ----
    isDark,              \* the state of the hook
    ls_theme,            \* localStorage 'theme'
    dataTheme,           \* attribute data-theme of <html>
    prefersDark,         \* matchMedia('(prefers-color-scheme: dark)').matches
    themePC,             \* "init" | "effect" (effect due) | "idle"
    themeQueue,          \* updaters toggle() has queued, not yet run
    themeAtStart,        \* 'theme' as the initializer found it
    toggles,             \* toggle() calls so far
    \* ---- WebWorkerCompiler and the worker solc-worker.js ----
    isInitialized,       \* WebWorkerCompiler.isInitialized
    workerInitialized,   \* isInitialized of the worker: solc is loaded
    toWorker,            \* messages posted to the worker, not yet handled
    toMain,              \* messages posted by the worker, not yet delivered
    callPC,              \* per compileContract call: "idle" | "waitInit" |
                         \*   "listening" | "resolved" | "rejected" | "threw"
    callInput,           \* per call: its sourceCode and contractName
    callResult           \* per call: the output it resolved with

walletVars == <<ethereum, providerChain, address, isConnected, chainId, signer,
                isLoading, error, ls_wallet_connected, ls_wallet_address,
                connectPC, arPC, connectPre, connectClean, reported, walletLast>>

regVars == <<deployedContracts, ls_deployed_contracts, regPC, selectedChainId, now,
             dpPC, dpVariant, dpChain, dpTx, dpTxChain, dpAddress,
             txSubmitted, invocations, totalTx, preReload, lastAdded,
             regLast>>

vfVars == <<apiKeySet, vfFn, vfChain, vfPC, attempt, httpAttempts, sleeps,
            outcomes, vfError, vfAddress, vfGuid, vfText, vfResult>>

pollVars == <<pollPC, pollGuid, pollChain, maxAttempts, pollAttempt, pollCalls,
              pollSleeps, pollResult, pollSeen>>

swVars == <<swPC, swTarget, requests>>

queueVars == <<updateQueue, expected, lastBatch>>

statusVars == <<verificationStatus, vhPC>>

listenerVars == <<listeners, lePC>>

\* state of the parts of the page modelled further down
shapeVars == <<deployedShape, renderError>>

\* state of the parts of the page modelled further down
themeVars == <<isDark, ls_theme, dataTheme, prefersDark, themePC, themeQueue,
               themeAtStart, toggles>>

workerVars == <<isInitialized, workerInitialized, toWorker, toMain, callPC,
                callInput, callResult>>

laterVars == <<listenerVars, shapeVars, themeVars, workerVars>>

vars == <<walletVars, regVars, vfVars, swVars, pollVars, queueVars, statusVars,
          laterVars>>

(***************************************************************************)
(* Bounds                                                                  *)
(***************************************************************************)
MaxAccount == 1

(***************************************************************************)
(* Values                                                                  *)
(***************************************************************************)
\* An account address is an account identity and the letter case it is
\* written in.  The three spellings of one account are different strings
\* (every account modelled has a hex letter that EIP-55 upper-cases).
Forms == {"lower", "upper", "checksum"}
AccountIds == 1..MaxAccount
Addr == [id : AccountIds, form : Forms]
NoAddr == [id |-> 0, form |-> "null"]
\* spellings a provider answers eth_requestAccounts / eth_accounts /
\* accountsChanged with
ProviderForms == {"lower", "upper"}
ProviderAddr == [id : AccountIds, form : ProviderForms]

NoChain == 0
NoError == "null"
Absent == "null"

\* utils/networks.ts
SupportedChainIds == {31337, 1337, 1, 11155111, 8453, 84532, 42220, 44787}
UnknownChainId == 999
\* getNetworkByChainId(chainId) !== undefined
isNetworkSupported(c) == c \in SupportedChainIds
\* chains the modelled wallet can be on
Chains == {1, 8453, UnknownChainId}

\* String.prototype.toLowerCase on an address
toLowerCase(a) == IF a = NoAddr THEN a ELSE [a EXCEPT !.form = "lower"]
\* ethers getAddress(): the EIP-55 checksum spelling
getAddress(a) == IF a = NoAddr THEN a ELSE [a EXCEPT !.form = "checksum"]

isMetaMaskInstalled == ethereum = "metamask"
hasProvider == ethereum # "none"

ConnectionState ==
    [address |-> address, isConnected |-> isConnected,
     chainId |-> chainId, signer |-> signer]
Disconnected ==
    [address |-> NoAddr, isConnected |-> FALSE,
     chainId |-> NoChain, signer |-> NoAddr]

\* effect of useWallet.ts:204-209, run after a render in which isConnected
\* or address changed: the flags as they are after the effect
persistConnected(c, a, c2, a2, flag) ==
    IF <<c, a>> # <<c2, a2>> /\ c2 /\ a2 # NoAddr THEN "true" ELSE flag
persistAddress(c, a, c2, a2, saved) ==
    IF <<c, a>> # <<c2, a2>> /\ c2 /\ a2 # NoAddr THEN a2 ELSE saved

PersistEffect ==
    /\ ls_wallet_connected' =
         persistConnected(isConnected, address, isConnected', address', ls_wallet_connected)
    /\ ls_wallet_address' =
         persistAddress(isConnected, address, isConnected', address', ls_wallet_address)

nonWallet == <<regVars, vfVars, pollVars, queueVars, statusVars, laterVars>>
nonRegistry == <<walletVars, vfVars, swVars, pollVars, queueVars, statusVars,
                laterVars>>
nonVerify == <<walletVars, regVars, swVars, queueVars, laterVars>>

\* bookkeeping of a handler other than connect(): the history of the
\* connect() call is dropped, it no longer describes an undisturbed call
Other(label) ==
    /\ walletLast' = label
    /\ connectClean' = FALSE
    /\ connectPre' = [state |-> Disconnected, flags |-> <<Absent, NoAddr>>]
    /\ reported' = NoAddr

(***************************************************************************)
(* connect()  useWallet.ts:63-91, connectWallet()                          *)
(***************************************************************************)
connect_notInstalled ==
    /\ UNCHANGED <<nonWallet, swVars>>
    /\ connectPC = "idle"
    /\ ~isMetaMaskInstalled
    /\ error' = "MetaMask is not installed"
    /\ connectPre' = [state |-> ConnectionState,
                      flags |-> <<ls_wallet_connected, ls_wallet_address>>]
    /\ connectClean' = TRUE
    /\ walletLast' = "connect.fail"
    /\ UNCHANGED <<ethereum, providerChain, address, isConnected, chainId, signer,
                   isLoading, ls_wallet_connected, ls_wallet_address,
                   connectPC, arPC, reported>>

connect_start ==
    /\ UNCHANGED <<nonWallet, swVars>>
    /\ connectPC = "idle"
    /\ isMetaMaskInstalled
    /\ isLoading' = TRUE
    /\ error' = NoError
    /\ connectPC' = "connectWallet"
    /\ connectPre' = [state |-> ConnectionState,
                      flags |-> <<ls_wallet_connected, ls_wallet_address>>]
    /\ connectClean' = TRUE
    /\ walletLast' = "connect.start"
    /\ UNCHANGED <<ethereum, providerChain, address, isConnected, chainId, signer,
                   ls_wallet_connected, ls_wallet_address, arPC, reported>>

\* await connectWallet() throws: request rejected, no accounts, getSigner or
\* getAddress failing
connect_connectWallet_fail ==
    /\ UNCHANGED <<nonWallet, swVars>>
    /\ connectPC = "connectWallet"
    /\ \E msg \in {"User rejected the connection request.",
                   "No accounts found. Please connect your wallet.",
                   "Failed to connect wallet"} :
          error' = msg
    /\ isLoading' = FALSE
    /\ connectPC' = "idle"
    /\ walletLast' = "connect.fail"
    /\ UNCHANGED <<ethereum, providerChain, address, isConnected, chainId, signer,
                   ls_wallet_connected, ls_wallet_address, arPC,
                   connectPre, connectClean, reported>>

\* the address connectWallet() returns for the account the provider reported
connectWalletAddress(a) == getAddress(a)

\* await connectWallet() resolves; the hook then awaits eth_chainId
connect_connectWallet_ok ==
    /\ UNCHANGED <<nonWallet, swVars>>
    /\ connectPC = "connectWallet"
    /\ \E a \in ProviderAddr :
          /\ reported' = a
          /\ address' = connectWalletAddress(a)
          /\ signer' = connectWalletAddress(a)
    /\ isConnected' = TRUE
    /\ connectPC' = "eth_chainId"
    /\ PersistEffect
    /\ walletLast' = "connect.account"
    /\ UNCHANGED <<ethereum, providerChain, chainId, isLoading, error, arPC,
                   connectPre, connectClean>>

connect_chainId_ok ==
    /\ UNCHANGED <<nonWallet, swVars>>
    /\ connectPC = "eth_chainId"
    /\ chainId' = providerChain
    /\ isLoading' = FALSE
    /\ connectPC' = "idle"
    /\ walletLast' = "connect.ok"
    /\ UNCHANGED <<ethereum, providerChain, address, isConnected, signer, error,
                   ls_wallet_connected, ls_wallet_address, arPC,
                   connectPre, connectClean, reported>>

\* what the catch block of connect() leaves of the ConnectionState
connectCatch(s) == s

connect_chainId_fail ==
    /\ UNCHANGED <<nonWallet, swVars>>
    /\ connectPC = "eth_chainId"
    /\ error' = "eth_chainId failed"
    /\ address' = connectCatch(ConnectionState).address
    /\ isConnected' = connectCatch(ConnectionState).isConnected
    /\ chainId' = connectCatch(ConnectionState).chainId
    /\ signer' = connectCatch(ConnectionState).signer
    /\ isLoading' = FALSE
    /\ connectPC' = "idle"
    /\ PersistEffect
    /\ walletLast' = "connect.fail"
    /\ UNCHANGED <<ethereum, providerChain, arPC,
                   connectPre, connectClean, reported>>

(***************************************************************************)
(* disconnect()  useWallet.ts:94-104                                       *)
(***************************************************************************)
disconnectState ==
    /\ address' = NoAddr
    /\ isConnected' = FALSE
    /\ chainId' = NoChain
    /\ signer' = NoAddr
    /\ error' = NoError
    /\ ls_wallet_connected' = Absent
    /\ ls_wallet_address' = NoAddr

disconnect ==
    /\ UNCHANGED <<nonWallet, swVars>>
    /\ disconnectState
    /\ Other("disconnect")
    /\ UNCHANGED <<ethereum, providerChain, isLoading, connectPC, arPC>>

(***************************************************************************)
(* provider events  useWallet.ts:129-143, 188-201                          *)
(***************************************************************************)
\* an account list whose last entry is taken
firstAccount_last(accounts) ==
    IF Len(accounts) = 0 THEN NoAddr ELSE accounts[Len(accounts)]

\* accounts[0] || null
firstAccount(accounts) == IF Len(accounts) = 0 THEN NoAddr ELSE accounts[1]

AccountLists ==
    {<<>>} \cup {<<a>> : a \in ProviderAddr}
           \cup {<<a, b>> : a \in ProviderAddr, b \in ProviderAddr}

\* the handler run for the event accountsChanged(accounts)
handleAccountsChangedOn(accounts) ==
    /\ UNCHANGED <<nonWallet, swVars>>
    /\ hasProvider
    /\ IF Len(accounts) = 0
       THEN /\ disconnectState
            /\ Other("accountsChanged")
       ELSE /\ address' = firstAccount(accounts)
            /\ UNCHANGED <<isConnected, chainId, signer, error>>
            /\ PersistEffect
            /\ Other("accountsChanged")
    /\ UNCHANGED <<ethereum, providerChain, isLoading, connectPC, arPC>>

handleAccountsChanged ==
    \E accounts \in AccountLists : handleAccountsChangedOn(accounts)

handleChainChanged ==
    /\ UNCHANGED <<nonWallet, swVars>>
    /\ hasProvider
    /\ \E newChainId \in Chains :
          /\ newChainId # providerChain
          /\ providerChain' = newChainId
          /\ chainId' = newChainId
    /\ Other("chainChanged")
    /\ UNCHANGED <<ethereum, address, isConnected, signer, isLoading, error,
                   ls_wallet_connected, ls_wallet_address, connectPC, arPC>>

\* The effect of useWallet.ts:188-201.  Its dependencies are the two
\* handlers, which useCallback keeps identical over every render
\* (disconnect has no dependencies), so it runs when the hook mounts and
\* its cleanup runs when the hook unmounts; under React.StrictMode
\* (main.tsx) a mounted hook is unmounted and mounted again.
NoListeners == [accountsChanged |-> 0, chainChanged |-> 0]

\* provider.on(event, handler) for both events
addListeners(l) ==
    [accountsChanged |-> l.accountsChanged + 1,
     chainChanged |-> l.chainChanged + 1]

\* provider.removeListener(event, handler) for both events
removeListeners(l) ==
    [accountsChanged |-> IF l.accountsChanged > 0
                         THEN l.accountsChanged - 1 ELSE 0,
     chainChanged |-> IF l.chainChanged > 0 THEN l.chainChanged - 1 ELSE 0]

\* the effect has run on mount: a page with a provider has both handlers
\* registered
ListenersMounted ==
    /\ listeners = IF hasProvider THEN addListeners(NoListeners) ELSE NoListeners
    /\ lePC = IF hasProvider THEN "registered" ELSE "noProvider"

\* the effect body
listenerEffect ==
    /\ lePC = "pending"
    /\ IF hasProvider
       THEN /\ listeners' = addListeners(listeners)
            /\ lePC' = "registered"
       ELSE /\ lePC' = "noProvider"
            /\ UNCHANGED listeners
    /\ UNCHANGED <<walletVars, swVars, regVars, vfVars, pollVars, queueVars,
                   statusVars, shapeVars, themeVars, workerVars>>

\* the cleanup function the effect returned
listenerCleanup ==
    /\ lePC = "registered"
    /\ listeners' = removeListeners(listeners)
    /\ lePC' = "pending"
    /\ UNCHANGED <<walletVars, swVars, regVars, vfVars, pollVars, queueVars,
                   statusVars, shapeVars, themeVars, workerVars>>

\* the provider emits an event: every registered handler runs
emit_accountsChanged ==
    /\ listeners.accountsChanged = 1
    /\ handleAccountsChanged

emit_chainChanged ==
    /\ listeners.chainChanged = 1
    /\ handleChainChanged

(***************************************************************************)
(* autoReconnect()  useWallet.ts:146-185                                   *)
(***************************************************************************)
clearFlags ==
    /\ ls_wallet_connected' = Absent
    /\ ls_wallet_address' = NoAddr

autoReconnect_start ==
    /\ UNCHANGED <<nonWallet, swVars>>
    /\ arPC = "start"
    /\ arPC' = IF /\ ls_wallet_connected = "true"
                  /\ ls_wallet_address # NoAddr
                  /\ isMetaMaskInstalled
               THEN "eth_accounts" ELSE "done"
    /\ Other(IF arPC' = "done" THEN "autoReconnect.skip" ELSE "autoReconnect")
    /\ UNCHANGED <<ethereum, providerChain, address, isConnected, chainId, signer,
                   isLoading, error, ls_wallet_connected, ls_wallet_address,
                   connectPC>>

autoReconnect_accounts ==
    /\ UNCHANGED <<nonWallet, swVars>>
    /\ arPC = "eth_accounts"
    /\ \E accounts \in {<<>>} \cup {<<a>> : a \in ProviderAddr} :
          IF Len(accounts) > 0
          THEN /\ address' = accounts[1]
               /\ isConnected' = TRUE
               /\ PersistEffect
               /\ arPC' = "eth_chainId"
          ELSE /\ clearFlags
               /\ arPC' = "done"
               /\ UNCHANGED <<address, isConnected>>
    /\ Other(IF arPC' = "done" THEN "autoReconnect.noAccounts" ELSE "autoReconnect")
    /\ UNCHANGED <<ethereum, providerChain, chainId, signer, isLoading, error,
                   connectPC>>

autoReconnect_chainId ==
    /\ UNCHANGED <<nonWallet, swVars>>
    /\ arPC = "eth_chainId"
    /\ chainId' = providerChain
    /\ arPC' = "getSigner"
    /\ Other("autoReconnect")
    /\ UNCHANGED <<ethereum, providerChain, address, isConnected, signer,
                   isLoading, error, ls_wallet_connected, ls_wallet_address,
                   connectPC>>

autoReconnect_getSigner ==
    /\ UNCHANGED <<nonWallet, swVars>>
    /\ arPC = "getSigner"
    /\ signer' = getAddress(address)
    /\ arPC' = "done"
    /\ Other("autoReconnect.ok")
    /\ UNCHANGED <<ethereum, providerChain, address, isConnected, chainId,
                   isLoading, error, ls_wallet_connected, ls_wallet_address,
                   connectPC>>

\* what the catch block of autoReconnect leaves of the ConnectionState: it
\* logs and removes the two flags
autoReconnectCatch(s) == s

\* any of the three awaits rejects
autoReconnect_catch ==
    /\ UNCHANGED <<nonWallet, swVars>>
    /\ arPC \in {"eth_accounts", "eth_chainId", "getSigner"}
    /\ address' = autoReconnectCatch(ConnectionState).address
    /\ isConnected' = autoReconnectCatch(ConnectionState).isConnected
    /\ chainId' = autoReconnectCatch(ConnectionState).chainId
    /\ signer' = autoReconnectCatch(ConnectionState).signer
    /\ clearFlags
    /\ arPC' = "done"
    /\ Other("autoReconnect.fail")
    /\ UNCHANGED <<ethereum, providerChain, isLoading, error, connectPC>>

(***************************************************************************)
(* Network registry  utils/networks.ts                                     *)
(***************************************************************************)
Descriptor(c, n, rpc, explorer, api, symbol) ==
    [chainId |-> c, name |-> n, rpcUrl |-> rpc, blockExplorer |-> explorer,
     blockExplorerApi |-> api, nativeCurrency |-> symbol]

\* the entry of `networks` with the chain id c (c \in SupportedChainIds)
networks(c) ==
    CASE c = 31337 ->
           Descriptor(c, "Hardhat Local", "LOCAL_NODE_URL", "", "", "ETH")
      [] c = 1337 ->
           Descriptor(c, "Localhost", "LOCAL_NODE_URL", "", "", "ETH")
      [] c = 1 ->
           Descriptor(c, "Ethereum Mainnet", "QUICKNODE_URL",
                      "https://etherscan.io",
                      "https://api.etherscan.io/api", "ETH")
      [] c = 11155111 ->
           Descriptor(c, "Ethereum Sepolia", "QUICKNODE_URL",
                      "https://sepolia.etherscan.io",
                      "https://api-sepolia.etherscan.io/api", "ETH")
      [] c = 8453 ->
           Descriptor(c, "Base Mainnet", "QUICKNODE_URL",
                      "https://basescan.org",
                      "https://api.basescan.org/api", "ETH")
      [] c = 84532 ->
           Descriptor(c, "Base Sepolia", "QUICKNODE_URL",
                      "https://sepolia.basescan.org",
                      "https://api-sepolia.basescan.org/api", "ETH")
      [] c = 42220 ->
           Descriptor(c, "Celo Mainnet", "QUICKNODE_URL",
                      "https://celoscan.io",
                      "https://api.celoscan.io/api", "CELO")
      [] c = 44787 ->
           Descriptor(c, "Celo Alfajores", "QUICKNODE_URL",
                      "https://alfajores.celoscan.io",
                      "https://api-alfajores.celoscan.io/api", "CELO")

\* getExplorerUrl(chainId): network?.blockExplorer || ''
getExplorerUrl(c) ==
    IF c \in SupportedChainIds THEN networks(c).blockExplorer ELSE ""

(***************************************************************************)
(* switchNetwork()  useWallet.ts:107-126;                                  *)
(* switchNetwork / addNetwork of utils/contractDeployment.ts               *)
(***************************************************************************)
\* the provider requests
switchRequest(c) ==
    [method |-> "wallet_switchEthereumChain", chainId |-> c,
     chainName |-> "", nativeCurrency |-> "", rpcUrls |-> <<>>,
     blockExplorerUrls |-> <<>>]
addRequest(network) ==
    [method |-> "wallet_addEthereumChain", chainId |-> network.chainId,
     chainName |-> network.name, nativeCurrency |-> network.nativeCurrency,
     rpcUrls |-> <<network.rpcUrl>>,
     blockExplorerUrls |-> IF network.blockExplorer # ""
                           THEN <<network.blockExplorer>> ELSE <<>>]

\* error codes the provider rejects wallet_switchEthereumChain with:
\* 4902 unrecognized chain, -32603 internal error, 4001 user rejected
SwitchErrorCodes == {4902, 0 - 32603, 4001}
\* error.code === 4902 || error.code === -32603
chainUnknown(code) == code = 4902 \/ code = 0 - 32603

\* a catch block that forgets the chain
switchCatch_reset(current) == NoChain

\* chainId after the catch block of the hook: it only calls setError
switchCatch(current) == current

\* what switchNetwork of the utility does after addNetwork(network) resolved
afterAddNetwork == <<>>

SwitchIdle ==
    /\ swPC = "idle"
    /\ swTarget = NoChain
    /\ requests = <<>>

\* if (!isConnected) { setError('Wallet not connected'); return; }
switchNetwork_notConnected ==
    /\ swPC = "idle"
    /\ ~isConnected
    /\ \E newChainId \in Chains : swTarget' = newChainId
    /\ error' = "Wallet not connected"
    /\ requests' = <<>>
    /\ Other("switchNetwork.fail")
    /\ UNCHANGED <<ethereum, providerChain, address, isConnected, chainId, signer,
                   isLoading, ls_wallet_connected, ls_wallet_address,
                   connectPC, arPC, swPC>>
    /\ UNCHANGED nonWallet

\* the call up to its first await; a target without an entry in `networks`
\* makes the utility throw before any request is sent
switchNetwork_start ==
    /\ swPC = "idle"
    /\ isConnected
    /\ \E newChainId \in Chains :
          /\ swTarget' = newChainId
          /\ IF isNetworkSupported(newChainId)
             THEN /\ requests' = <<switchRequest(newChainId)>>
                  /\ swPC' = "switch"
                  /\ isLoading' = TRUE
                  /\ error' = NoError
                  /\ Other("switchNetwork")
             ELSE /\ requests' = <<>>
                  /\ swPC' = "idle"
                  /\ isLoading' = FALSE
                  /\ error' = "Network is not supported"
                  /\ Other("switchNetwork.fail")
    /\ chainId' = IF isNetworkSupported(swTarget')
                  THEN chainId ELSE switchCatch(chainId)
    /\ UNCHANGED <<ethereum, providerChain, address, isConnected, signer,
                   ls_wallet_connected, ls_wallet_address, connectPC, arPC>>
    /\ UNCHANGED nonWallet

\* wallet_switchEthereumChain resolves: the wallet is on the target chain and
\* the hook runs setChainId(newChainId)
switchNetwork_switch_ok ==
    /\ swPC = "switch"
    /\ providerChain' = swTarget
    /\ chainId' = swTarget
    /\ isLoading' = FALSE
    /\ swPC' = "idle"
    /\ Other("switchNetwork.ok")
    /\ UNCHANGED <<ethereum, address, isConnected, signer, error,
                   ls_wallet_connected, ls_wallet_address, connectPC, arPC,
                   swTarget, requests>>
    /\ UNCHANGED nonWallet

\* wallet_switchEthereumChain is rejected with a code that means the chain is
\* not known to the wallet: addNetwork(network) sends wallet_addEthereumChain
switchNetwork_switch_unknown ==
    /\ swPC = "switch"
    /\ \E code \in SwitchErrorCodes : chainUnknown(code)
    /\ requests' = Append(requests, addRequest(networks(swTarget)))
    /\ swPC' = "addChain"
    /\ Other("switchNetwork")
    /\ UNCHANGED <<ethereum, providerChain, address, isConnected, chainId, signer,
                   isLoading, error, ls_wallet_connected, ls_wallet_address,
                   connectPC, arPC, swTarget>>
    /\ UNCHANGED nonWallet

\* wallet_switchEthereumChain is rejected with another code (the user
\* declined): 'Failed to switch network: ...'
switchNetwork_switch_fail ==
    /\ swPC = "switch"
    /\ \E code \in SwitchErrorCodes : ~chainUnknown(code)
    /\ error' = "Failed to switch network"
    /\ chainId' = switchCatch(chainId)
    /\ isLoading' = FALSE
    /\ swPC' = "idle"
    /\ Other("switchNetwork.fail")
    /\ UNCHANGED <<ethereum, providerChain, address, isConnected, signer,
                   ls_wallet_connected, ls_wallet_address, connectPC, arPC,
                   swTarget, requests>>
    /\ UNCHANGED nonWallet

\* wallet_addEthereumChain resolves; the wallet may or may not have moved to
\* the chain it added.  The utility returns and the hook runs
\* setChainId(newChainId)
switchNetwork_add_ok ==
    /\ swPC = "addChain"
    /\ providerChain' \in {providerChain, swTarget}
    /\ requests' = requests \o afterAddNetwork
    /\ chainId' = swTarget
    /\ isLoading' = FALSE
    /\ swPC' = "idle"
    /\ Other("switchNetwork.ok")
    /\ UNCHANGED <<ethereum, address, isConnected, signer, error,
                   ls_wallet_connected, ls_wallet_address, connectPC, arPC,
                   swTarget>>
    /\ UNCHANGED nonWallet

\* wallet_addEthereumChain is rejected: 'Failed to add network: ...'
switchNetwork_add_fail ==
    /\ swPC = "addChain"
    /\ error' = "Failed to add network"
    /\ chainId' = switchCatch(chainId)
    /\ isLoading' = FALSE
    /\ swPC' = "idle"
    /\ Other("switchNetwork.fail")
    /\ UNCHANGED <<ethereum, providerChain, address, isConnected, signer,
                   ls_wallet_connected, ls_wallet_address, connectPC, arPC,
                   swTarget, requests>>
    /\ UNCHANGED nonWallet

(***************************************************************************)
(* Contract registry  useContract.ts                                       *)
(***************************************************************************)
MaxContracts == 3
MaxClock == 4
MaxContractAddr == 2
MaxDeploys == 2

ContractAddrs == 1..MaxContractAddr
ContractNames == {"DeployedContract", "Token"}
\* chains the network selector of the UI offers (all of them supported)
SelectableChains == Chains \cap SupportedChainIds

\* a Date object and the ISO string JSON.stringify turns it into
Date(t) == [type |-> "Date", ms |-> t]
toJSON(d) == [type |-> "string", ms |-> d.ms]

\* the identity key of a record
KeyOf(r) == <<r.address, r.chainId>>

\* JSON.stringify(contracts): Date.prototype.toJSON replaces every Date by
\* its ISO string; a string stays a string
stringifyRecord(r) ==
    IF r.deployedAt.type = "Date"
    THEN [r EXCEPT !.deployedAt = toJSON(r.deployedAt)]
    ELSE r
JSONstringify(contracts) ==
    [kind |-> "array",
     items |-> [i \in 1..Len(contracts) |-> stringifyRecord(contracts[i])]]
\* JSON.parse(stored), called without a reviver
JSONparse(stored) == stored.items

NoStored == [kind |-> "absent", items |-> <<>>]
\* a stored string JSON.parse throws on
Garbage == [kind |-> "garbage", items |-> <<>>]
\* a stored string that is valid JSON and no array: '{}', 'null', '5', 'true'
StoredObject == [kind |-> "object", items |-> <<>>]
\* the stored values the two mount effects carry out their loop on
WellFormed(stored) == stored.kind \in {"absent", "array"}

\* useState([]): the state holds an array and nothing has thrown
ShapeIdle ==
    /\ deployedShape = "array"
    /\ renderError = FALSE

\* saveDeployedContracts(contracts)  useContract.ts:101-107
saveDeployedContracts(contracts) == JSONstringify(contracts)

\* the updater of saveDeployedContract  useContract.ts:265-269
addRecord(prev, contract) == Append(prev, contract)

RECURSIVE FilterSeq(_, _)
FilterSeq(seq, addr) ==
    IF seq = <<>> THEN <<>>
    ELSE IF Head(seq).address # addr
         THEN <<Head(seq)>> \o FilterSeq(Tail(seq), addr)
         ELSE FilterSeq(Tail(seq), addr)

\* the updater of removeDeployedContract  useContract.ts:285-289
removeRecord(prev, addr) == FilterSeq(prev, addr)

NoRecord == [address |-> 0, contractName |-> "null", chainId |-> NoChain,
             transactionHash |-> 0, deployedAt |-> Date(0)]

RegHistory(label) ==
    /\ regLast' = label
    /\ lastAdded' = NoRecord

\* mount effect of useContract  useContract.ts:84-98
loadDeployedContracts ==
    /\ regPC = "mount"
    /\ WellFormed(ls_deployed_contracts)
    /\ deployedContracts' =
         IF ls_deployed_contracts.kind = "absent"
         THEN deployedContracts
         ELSE JSONparse(ls_deployed_contracts)
    /\ regPC' = "appEffect"
    /\ RegHistory("load")
    /\ UNCHANGED <<ls_deployed_contracts, selectedChainId, now, dpPC, dpVariant,
                   dpChain, dpTx, dpAddress, txSubmitted, invocations, totalTx,
                   dpTxChain, preReload>>
    /\ UNCHANGED nonRegistry

\* mount effect of App: every stored record goes through saveDeployedContract
appLoadEffect ==
    /\ regPC = "appEffect"
    /\ WellFormed(ls_deployed_contracts)
    /\ IF ls_deployed_contracts.kind = "absent"
          \/ JSONparse(ls_deployed_contracts) = <<>>
       THEN UNCHANGED <<deployedContracts, ls_deployed_contracts>>
       ELSE /\ deployedContracts' =
                 deployedContracts \o JSONparse(ls_deployed_contracts)
            /\ ls_deployed_contracts' = saveDeployedContracts(deployedContracts')
    /\ regPC' = "ready"
    /\ preReload' = <<>>
    /\ RegHistory("appLoad")
    /\ UNCHANGED <<selectedChainId, now, dpPC, dpVariant, dpChain, dpTx,
                   dpAddress, txSubmitted, invocations, totalTx, dpTxChain>>
    /\ UNCHANGED nonRegistry

\* the registry variables a mount effect or a throwing updater leaves alone
StartupFrame ==
    /\ UNCHANGED <<deployedContracts, ls_deployed_contracts, selectedChainId,
                   now, dpPC, dpVariant, dpChain, dpTx, dpAddress, txSubmitted,
                   invocations, totalTx, dpTxChain>>
    /\ UNCHANGED <<walletVars, vfVars, swVars, pollVars, queueVars, statusVars,
                   listenerVars, themeVars, workerVars>>

\* mount effect of useContract on a stored value that is no JSON array:
\* JSON.parse throws and the catch block logs, or JSON.parse returns the
\* value and setDeployedContracts stores it
loadDeployedContracts_malformed ==
    /\ regPC = "mount"
    /\ ~WellFormed(ls_deployed_contracts)
    /\ deployedShape' = IF ls_deployed_contracts.kind = "garbage"
                        THEN deployedShape ELSE "object"
    /\ regPC' = "appEffect"
    /\ RegHistory("load")
    /\ UNCHANGED <<renderError, preReload>>
    /\ StartupFrame

\* mount effect of App on such a value: JSON.parse throws, or
\* contracts.forEach is no function; either way the catch block logs
appLoadEffect_malformed ==
    /\ regPC = "appEffect"
    /\ ~WellFormed(ls_deployed_contracts)
    /\ regPC' = "ready"
    /\ preReload' = <<>>
    /\ RegHistory("appLoad")
    /\ UNCHANGED shapeVars
    /\ StartupFrame

\* saveDeployedContract(contract) while the state holds no array: the
\* updater evaluates [...prev, contract] and throws a TypeError
saveDeployedContract_notArray ==
    /\ regPC = "ready"
    /\ deployedShape = "object"
    /\ ~renderError
    /\ renderError' = TRUE
    /\ RegHistory("add")
    /\ UNCHANGED <<deployedShape, regPC, preReload>>
    /\ StartupFrame

\* removeDeployedContract(address) while the state holds no array: the
\* updater evaluates prev.filter(...) and throws a TypeError
removeDeployedContract_notArray ==
    /\ regPC = "ready"
    /\ deployedShape = "object"
    /\ ~renderError
    /\ renderError' = TRUE
    /\ RegHistory("remove")
    /\ UNCHANGED <<deployedShape, regPC, preReload>>
    /\ StartupFrame

\* saveDeployedContract(contract) called with a record of the caller
saveDeployedContract ==
    /\ regPC = "ready"
    /\ deployedShape = "array"
    /\ Len(deployedContracts) < MaxContracts
    /\ now < MaxClock
    /\ \E a \in ContractAddrs, n \in ContractNames, c \in SelectableChains :
          LET contract == [address |-> a, contractName |-> n, chainId |-> c,
                           transactionHash |-> now, deployedAt |-> Date(now)]
          IN /\ deployedContracts' = addRecord(deployedContracts, contract)
             /\ lastAdded' = contract
    /\ ls_deployed_contracts' = saveDeployedContracts(deployedContracts')
    /\ now' = now + 1
    /\ regLast' = "add"
    /\ UNCHANGED <<regPC, selectedChainId, dpPC, dpVariant, dpChain, dpTx,
                   dpAddress, txSubmitted, invocations, totalTx, dpTxChain,
                   preReload>>
    /\ UNCHANGED nonRegistry

\* removeDeployedContract(address)
removeDeployedContractOn(a) ==
    /\ regPC = "ready"
    /\ deployedShape = "array"
    /\ deployedContracts' = removeRecord(deployedContracts, a)
    /\ ls_deployed_contracts' = saveDeployedContracts(deployedContracts')
    /\ RegHistory("remove")
    /\ UNCHANGED <<regPC, selectedChainId, now, dpPC, dpVariant, dpChain, dpTx,
                   dpAddress, txSubmitted, invocations, totalTx, dpTxChain,
                   preReload>>
    /\ UNCHANGED nonRegistry

removeDeployedContract ==
    \E a \in ContractAddrs : removeDeployedContractOn(a)

\* the page is reloaded: component state is rebuilt, localStorage survives
reload ==
    /\ regPC = "ready"
    /\ 2 * Len(ls_deployed_contracts.items) <= MaxContracts
    /\ preReload' = deployedContracts
    /\ deployedContracts' = <<>>
    /\ regPC' = "mount"
    /\ selectedChainId' = 1
    /\ dpPC' = "idle"
    /\ dpVariant' = "app"
    /\ dpChain' = NoChain
    /\ dpTx' = 0
    /\ dpTxChain' = NoChain
    /\ dpAddress' = 0
    /\ txSubmitted' = 0
    /\ RegHistory("reload")
    /\ UNCHANGED <<ls_deployed_contracts, now, invocations, totalTx>>
    /\ UNCHANGED nonRegistry

\* first half of App.handleNetworkChange: setSelectedChainId(newChainId)
setSelectedChainId ==
    /\ regPC = "ready"
    /\ \E c \in SelectableChains :
          /\ c # selectedChainId
          /\ selectedChainId' = c
    /\ RegHistory("select")
    /\ UNCHANGED <<deployedContracts, ls_deployed_contracts, regPC, now, dpPC,
                   dpVariant, dpChain, dpTx, dpAddress, txSubmitted, invocations,
                   totalTx, dpTxChain, preReload>>
    /\ UNCHANGED nonRegistry

(***************************************************************************)
(* The updaters of deployedContracts.  saveDeployedContract,               *)
(* deployContractHandler and removeDeployedContract pass a function of the *)
(* previous list to setDeployedContracts; React runs the queued functions  *)
(* in call order at the next render, each on the result of the one before. *)
(***************************************************************************)
MaxQueue == 2

QueueIdle ==
    /\ updateQueue = <<>>
    /\ expected = <<>>
    /\ lastBatch = 0

addUpdater(contract) == [op |-> "add", contract |-> contract]
removeUpdater(a) ==
    [op |-> "remove", contract |-> [NoRecord EXCEPT !.address = a]]

\* prev => [...prev, contract]  and  prev => prev.filter(...)
applyUpdater(prev, u) ==
    IF u.op = "add" THEN addRecord(prev, u.contract)
    ELSE removeRecord(prev, u.contract.address)

RECURSIVE applyQueue(_, _)
applyQueue(prev, queue) ==
    IF queue = <<>> THEN prev
    ELSE applyQueue(applyUpdater(prev, Head(queue)), Tail(queue))

\* a batch in which only the last update of the batch takes effect
runUpdaters_lastWins(prev, queue) == applyUpdater(prev, queue[Len(queue)])

\* the list after React has run the queued updaters
runUpdaters(prev, queue) == applyQueue(prev, queue)

QueueFrame ==
    /\ UNCHANGED <<regPC, selectedChainId, dpPC, dpVariant, dpChain, dpTx,
                   dpAddress, txSubmitted, invocations, totalTx, dpTxChain,
                   preReload>>
    /\ UNCHANGED <<walletVars, vfVars, swVars, pollVars, statusVars, laterVars>>

\* a new record, stamped with the clock
newRecord(a, n, c) ==
    [address |-> a, contractName |-> n, chainId |-> c,
     transactionHash |-> now, deployedAt |-> Date(now)]

enqueueAdd(contract) ==
    /\ regPC = "ready"
    /\ Len(updateQueue) < MaxQueue
    /\ Len(expected) < MaxContracts
    /\ now < MaxClock
    /\ updateQueue' = Append(updateQueue, addUpdater(contract))
    /\ expected' = Append(expected, contract)
    /\ now' = now + 1
    /\ lastAdded' = contract
    /\ UNCHANGED <<deployedContracts, ls_deployed_contracts, lastBatch>>
    /\ QueueFrame

\* saveDeployedContract(contract) is called, by App.handleDeploy after its
\* deployment or by another caller; the record names the chain selected in
\* the UI
call_saveDeployedContract ==
    /\ \E a \in ContractAddrs :
          enqueueAdd(newRecord(a, "Token", selectedChainId))
    /\ regLast' = "add"

\* a deployment started by deployContractHandler (for the selected chain) has
\* completed: the handler queues its own updater
deployContractHandler_done ==
    /\ \E a \in ContractAddrs :
          enqueueAdd(newRecord(a, "DeployedContract", selectedChainId))
    /\ regLast' = "deploy.ok"

\* removeDeployedContract(address) is called
call_removeDeployedContract ==
    /\ regPC = "ready"
    /\ Len(updateQueue) < MaxQueue
    /\ \E a \in ContractAddrs :
          /\ updateQueue' = Append(updateQueue, removeUpdater(a))
          /\ expected' = removeRecord(expected, a)
    /\ RegHistory("remove")
    /\ UNCHANGED <<deployedContracts, ls_deployed_contracts, now, lastBatch>>
    /\ QueueFrame

\* React renders: the queued updaters run, each writing the list it returns
\* to localStorage
render ==
    /\ updateQueue # <<>>
    /\ deployedContracts' = runUpdaters(deployedContracts, updateQueue)
    /\ ls_deployed_contracts' = saveDeployedContracts(deployedContracts')
    /\ lastBatch' = Len(updateQueue)
    /\ updateQueue' = <<>>
    /\ regLast' = "render"
    /\ UNCHANGED <<expected, now, lastAdded>>
    /\ QueueFrame

(***************************************************************************)
(* The DeployedContracts panel  components/EventConsole.tsx:298-346        *)
(***************************************************************************)
SortCriteria == {"name", "date", "network"}

\* position of a contract name, and of the name of a network, in the order
\* localeCompare gives
NameRank(n) == IF n = "DeployedContract" THEN 1 ELSE 2
NetworkNameRank(c) ==
    CASE c = 8453 -> 1 [] c = 84532 -> 2 [] c = 44787 -> 3 [] c = 42220 -> 4
      [] c = 1 -> 5 [] c = 11155111 -> 6 [] c = 31337 -> 7 [] OTHER -> 8

\* the comparator of filtered.sort returns a negative number for (a, b)
Less(a, b, sortBy) ==
    CASE sortBy = "name" -> NameRank(a.contractName) < NameRank(b.contractName)
      [] sortBy = "date" -> b.deployedAt.ms < a.deployedAt.ms
      [] OTHER -> NetworkNameRank(a.chainId) < NetworkNameRank(b.chainId)

RECURSIVE InsertSorted(_, _, _)
InsertSorted(x, sorted, sortBy) ==
    IF sorted = <<>> THEN <<x>>
    ELSE IF Less(x, Head(sorted), sortBy) THEN <<x>> \o sorted
         ELSE <<Head(sorted)>> \o InsertSorted(x, Tail(sorted), sortBy)

RECURSIVE SortBy(_, _)
\* Array.prototype.sort with the comparator: a stable sort
SortBy(seq, sortBy) ==
    IF seq = <<>> THEN <<>>
    ELSE InsertSorted(seq[Len(seq)], SortBy(SubSeq(seq, 1, Len(seq) - 1), sortBy),
                      sortBy)

\* b.deployedAt.getTime() on a deployedAt that is a string: TypeError
comparatorThrows(seq, sortBy) ==
    /\ sortBy = "date"
    /\ Len(seq) >= 2
    /\ \E i \in 1..Len(seq) : seq[i].deployedAt.type # "Date"

\* the array passed as `contracts` after filteredContracts has been
\* computed: with a network filter the sort works on the copy filter()
\* returned, without one `filtered` is `contracts` itself and sort() orders
\* it in place
contractsAfterDisplay(contracts, filterNetwork, sortBy) ==
    IF filterNetwork # NoChain THEN contracts
    ELSE IF comparatorThrows(contracts, sortBy) THEN contracts
    ELSE SortBy(contracts, sortBy)

\* the panel renders with contracts = getDeployedContracts(), which is the
\* array held in the state of useContract
displayDeployedContracts ==
    /\ regPC = "ready"
    /\ \E filterNetwork \in {NoChain} \cup SelectableChains, sortBy \in SortCriteria :
          deployedContracts' =
              contractsAfterDisplay(deployedContracts, filterNetwork, sortBy)
    /\ RegHistory("display")
    /\ UNCHANGED <<ls_deployed_contracts, regPC, selectedChainId, now, dpPC,
                   dpVariant, dpChain, dpTx, dpAddress, txSubmitted, invocations,
                   totalTx, dpTxChain, preReload>>
    /\ UNCHANGED nonRegistry

(***************************************************************************)
(* Deployment  contractDeployment.ts deployContract,                       *)
(* deployContractWithEstimation; App.handleDeploy; deployContractHandler   *)
(***************************************************************************)
\* a deployment that sends the transaction again when waiting for it failed
afterDeployFailure_resubmit(pc) ==
    IF pc \in {"waitForDeployment", "getNetwork"} THEN "deploy" ELSE "idle"

\* where a deployment goes after one of its steps threw: every catch block
\* rethrows to the caller
afterDeployFailure(pc) == "idle"

deployFails ==
    /\ dpPC' = afterDeployFailure(dpPC)
    /\ RegHistory("deploy.fail")
    /\ UNCHANGED <<deployedContracts, ls_deployed_contracts, regPC, selectedChainId,
                   now, dpVariant, dpChain, dpTx, dpAddress, txSubmitted,
                   invocations, totalTx, dpTxChain, preReload>>
    /\ UNCHANGED nonRegistry

\* a deployment that looks the network up before it sends anything
firstStep_lookup(v) == "getNetwork"

\* the first await of a deployment
firstStep(v) == IF v = "estimation" THEN "estimateGas" ELSE "deploy"

\* handleDeploy(contract, args, signer) of App, deployContractHandler(bytecode,
\* abi, chainId, signer) of the hook, or deployContractWithEstimation called
deploy_start ==
    /\ regPC = "ready"
    /\ dpPC = "idle"
    /\ invocations < MaxDeploys
    /\ \E v \in {"app", "hook", "estimation"}, c \in Chains :
          /\ dpVariant' = v
          /\ dpChain' = CASE v = "app" -> selectedChainId
                          [] v = "hook" -> c
                          [] OTHER -> NoChain
          /\ dpPC' = firstStep(v)
    /\ dpTx' = 0
    /\ dpTxChain' = NoChain
    /\ dpAddress' = 0
    /\ txSubmitted' = 0
    /\ invocations' = invocations + 1
    /\ RegHistory("deploy")
    /\ UNCHANGED <<deployedContracts, ls_deployed_contracts, regPC, selectedChainId,
                   now, totalTx, preReload>>
    /\ UNCHANGED nonRegistry

\* await estimateGas(...) and the maxGasPrice check
deploy_estimateGas_ok ==
    /\ dpPC = "estimateGas"
    /\ dpPC' = "deploy"
    /\ RegHistory("deploy")
    /\ UNCHANGED <<deployedContracts, ls_deployed_contracts, regPC, selectedChainId,
                   now, dpVariant, dpChain, dpTx, dpAddress, txSubmitted,
                   invocations, totalTx, dpTxChain, preReload>>
    /\ UNCHANGED nonRegistry

deploy_estimateGas_fail ==
    /\ dpPC = "estimateGas"
    /\ deployFails

\* await factory.deploy(...): the wallet signs and sends the transaction on
\* the chain it is on
deploy_submit_ok ==
    /\ dpPC = "deploy"
    /\ now < MaxClock
    /\ dpTx' = now
    /\ dpTxChain' = providerChain
    /\ txSubmitted' = txSubmitted + 1
    /\ totalTx' = totalTx + 1
    /\ now' = now + 1
    /\ dpPC' = "waitForDeployment"
    /\ RegHistory("deploy")
    /\ UNCHANGED <<deployedContracts, ls_deployed_contracts, regPC, selectedChainId,
                   dpVariant, dpChain, dpAddress, invocations, preReload>>
    /\ UNCHANGED nonRegistry

\* the user declines to sign, or the node rejects the transaction
deploy_submit_fail ==
    /\ dpPC = "deploy"
    /\ deployFails

\* await contract.waitForDeployment(), getAddress(), deploymentTx.wait()
deploy_wait_ok ==
    /\ dpPC = "waitForDeployment"
    /\ \E a \in ContractAddrs : dpAddress' = a
    /\ dpPC' = "getNetwork"
    /\ RegHistory("deploy")
    /\ UNCHANGED <<deployedContracts, ls_deployed_contracts, regPC, selectedChainId,
                   now, dpVariant, dpChain, dpTx, txSubmitted, invocations,
                   totalTx, dpTxChain, preReload>>
    /\ UNCHANGED nonRegistry

\* the transaction reverted, 'Deployment transaction not found' or
\* 'Transaction receipt not found'
deploy_wait_fail ==
    /\ dpPC = "waitForDeployment"
    /\ deployFails

\* chain id the caller of deployContract builds the record's network from
recordChain(variant, callerChain, signerChain) == callerChain

\* await provider.getNetwork() resolves with a chain of the registry;
\* deployContract returns and its caller builds and stores the record
deploy_finish_ok ==
    /\ dpPC = "getNetwork"
    /\ isNetworkSupported(providerChain)
    /\ dpVariant = "estimation" \/ isNetworkSupported(dpChain)
    /\ Len(deployedContracts) < MaxContracts
    /\ IF dpVariant = "estimation"
       THEN /\ UNCHANGED <<deployedContracts, ls_deployed_contracts>>
            /\ lastAdded' = NoRecord
       ELSE LET contract ==
                  [address |-> dpAddress,
                   contractName |-> IF dpVariant = "app" THEN "Token"
                                    ELSE "DeployedContract",
                   chainId |-> recordChain(dpVariant, dpChain, dpTxChain),
                   transactionHash |-> dpTx,
                   deployedAt |-> Date(now)]
            IN /\ deployedContracts' = addRecord(deployedContracts, contract)
               /\ ls_deployed_contracts' = saveDeployedContracts(deployedContracts')
               /\ lastAdded' = contract
    /\ dpPC' = "idle"
    /\ regLast' = "deploy.ok"
    /\ UNCHANGED <<regPC, selectedChainId, now, dpVariant, dpChain, dpTx,
                   dpAddress, txSubmitted, invocations, totalTx, dpTxChain,
                   preReload>>
    /\ UNCHANGED nonRegistry

\* getNetwork() rejects or names a chain without configuration ('Network
\* configuration not found'), or the caller's chain has none ('Network not
\* found')
deploy_finish_fail ==
    /\ dpPC = "getNetwork"
    /\ deployFails

(***************************************************************************)
(* Verification  contractVerification.ts                                   *)
(***************************************************************************)
\* RETRY_CONFIG
maxRetries == 5
baseDelay == 1000
maxDelay == 30000

Min(a, b) == IF a < b THEN a ELSE b

\* a backoff that grows linearly instead of doubling
getRetryDelay_linear(n) == Min(baseDelay * (n + 1), maxDelay)

\* getRetryDelay(attempt)
getRetryDelay(n) == Min(baseDelay * 2^n, maxDelay)

\* What one HTTP round trip ends in:
\*   "ok"       2xx, body status '1'
\*   "status0"  2xx, body status not '1' (the explorer's error text)
\*   "network"  no response: network error or timeout
\*   "http500"  5xx response
\*   "http400"  response with status 400
\*   "http404"  response with another 4xx status
Outcomes == {"ok", "status0", "network", "http500", "http400", "http404"}

\* getExplorerApiUrl(chainId) is non-empty
hasExplorerApi(c) == c \in {1, 11155111, 8453, 84532, 42220, 44787}
\* chain ids verification is called with: one with an explorer API, one of
\* the registry without (Hardhat), one outside the registry
VerifyChains == {1, 31337, UnknownChainId}

\* a catch block without the status test
isPermanent_never(fn, o) == FALSE

\* a catch block that also rethrows at once when the explorer answered with
\* status '0'
isPermanent_status0(fn, o) ==
    o = "status0" \/ (fn = "verifyContract" /\ o = "http400")

\* the catch block rethrows at once instead of retrying
\* (verifyContract: contractVerification.ts:103; checkVerificationStatus has
\* no such test)
isPermanent(fn, o) == fn = "verifyContract" /\ o = "http400"

RECURSIVE SumSeq(_)
SumSeq(seq) == IF seq = <<>> THEN 0 ELSE Head(seq) + SumSeq(Tail(seq))

Last(seq) == seq[Len(seq)]

\* Texts.  A guid and a contract address are different strings; the explorer
\* issues the guid number n for the submission of the contract address
\* number n.
MaxGuid == 2
NoText == [kind |-> "none", n |-> 0]
Guid(n) == [kind |-> "guid", n |-> n]
ContractAddress(n) == [kind |-> "address", n |-> n]
Guids == {Guid(n) : n \in 1..MaxGuid}
VerifiedAddresses == {ContractAddress(n) : n \in 1..MaxGuid}

\* result texts of a checkverifystatus response with status '1'
ResultTexts == {"Pending in queue", "Pass - Verified",
                "Fail - Unable to verify", "Already Verified"}

NoUrl == [base |-> "", path |-> "", tail |-> NoText]
\* getExplorerContractUrl(address, chainId)
getExplorerContractUrl(addr, c) ==
    [base |-> getExplorerUrl(c), path |-> "/address/", tail |-> addr]

NoResult == [guid |-> NoText, status |-> "none", message |-> "",
             explorerUrl |-> NoUrl]

\* the object verifyContract returns for a response with status '1' whose
\* result is the guid
submitResult(guid) ==
    [guid |-> guid, status |-> "pending",
     message |-> "Verification submitted successfully", explorerUrl |-> NoUrl]

\* the object checkVerificationStatus returns for a response with status
\* '1' and the result text
statusResult(guid, c, text) ==
    CASE text = "Pending in queue" ->
           [guid |-> guid, status |-> "pending",
            message |-> "Verification is pending", explorerUrl |-> NoUrl]
      [] text = "Pass - Verified" ->
           [guid |-> guid, status |-> "success",
            message |-> "Contract verified successfully",
            explorerUrl |-> getExplorerContractUrl(guid, c)]
      [] OTHER ->
           [guid |-> guid, status |-> "failed", message |-> text,
            explorerUrl |-> NoUrl]

\* an error message built from the first failure of the call
lastError_first(outs) == Head(outs)

\* lastError when the loop gives up: the failure of the attempt that just
\* ended
lastError(outs) == Last(outs)

\* the call of verifyContract(params) (arg: params.contractAddress) or
\* checkVerificationStatus(guid, chainId) (arg: guid) up to its first await
verifyStartOn(fn, c, arg) ==
    /\ vfFn' = fn
    /\ vfChain' = c
    /\ vfAddress' = IF fn = "verifyContract" THEN arg ELSE NoText
    /\ vfGuid' = IF fn = "verifyContract" THEN NoText ELSE arg
    /\ IF ~hasExplorerApi(c) \/ ~apiKeySet
       THEN /\ vfPC' = "threw"
            /\ vfError' = [kind |-> "config", last |-> "none"]
       ELSE /\ vfPC' = "request"
            /\ vfError' = [kind |-> "none", last |-> "none"]
    /\ attempt' = 0
    /\ httpAttempts' = 0
    /\ sleeps' = <<>>
    /\ outcomes' = <<>>
    /\ vfText' = ""
    /\ vfResult' = NoResult
    /\ UNCHANGED apiKeySet
    /\ UNCHANGED nonVerify

\* verifyContract(params) or checkVerificationStatus(guid, chainId) is called
verify_start ==
    /\ vfPC \in {"idle", "returned", "threw"}
    /\ \/ \E c \in VerifyChains, a \in VerifiedAddresses :
             verifyStartOn("verifyContract", c, a)
       \/ \E c \in VerifyChains, g \in Guids :
             verifyStartOn("checkVerificationStatus", c, g)
    /\ UNCHANGED <<pollVars, statusVars>>

\* await axios.post / axios.get settles and the loop body runs up to the
\* return, the throw or the call of sleep
verify_request ==
    /\ vfPC = "request"
    /\ \E o \in Outcomes :
          /\ outcomes' = Append(outcomes, o)
          /\ httpAttempts' = httpAttempts + 1
          /\ IF o = "ok"
             THEN /\ vfPC' = "returned"
                  /\ IF vfFn = "verifyContract"
                     THEN /\ vfText' = ""
                          /\ vfResult' = submitResult(Guid(vfAddress.n))
                     ELSE \E text \in ResultTexts :
                             /\ vfText' = text
                             /\ vfResult' = statusResult(vfGuid, vfChain, text)
                  /\ UNCHANGED <<vfError, sleeps>>
             ELSE /\ UNCHANGED <<vfText, vfResult>>
                  /\ IF isPermanent(vfFn, o)
                     THEN /\ vfPC' = "threw"
                          /\ vfError' = [kind |-> "rejected", last |-> o]
                          /\ UNCHANGED sleeps
                     ELSE IF attempt = maxRetries - 1
                     THEN /\ vfPC' = "threw"
                          /\ vfError' = [kind |-> "exhausted",
                                         last |-> lastError(outcomes')]
                          /\ UNCHANGED sleeps
                     ELSE /\ vfPC' = "sleep"
                          /\ sleeps' = Append(sleeps, getRetryDelay(attempt))
                          /\ vfError' = [kind |-> "none", last |-> o]
    /\ UNCHANGED <<vfFn, vfChain, vfAddress, vfGuid, attempt, apiKeySet>>
    /\ UNCHANGED <<nonVerify, pollVars, statusVars>>

\* the timer of sleep(delay) fires: attempt++ and the next iteration
verify_wake ==
    /\ vfPC = "sleep"
    /\ attempt' = attempt + 1
    /\ vfPC' = "request"
    /\ UNCHANGED <<vfFn, vfChain, vfAddress, vfGuid, vfText, vfResult,
                   httpAttempts, sleeps, outcomes, vfError, apiKeySet>>
    /\ UNCHANGED <<nonVerify, pollVars, statusVars>>

VerifyIdle ==
    /\ vfFn = "none"
    /\ vfChain = NoChain
    /\ vfPC = "idle"
    /\ attempt = 0
    /\ httpAttempts = 0
    /\ sleeps = <<>>
    /\ outcomes = <<>>
    /\ vfError = [kind |-> "none", last |-> "none"]
    /\ vfAddress = NoText
    /\ vfGuid = NoText
    /\ vfText = ""
    /\ vfResult = NoResult

(***************************************************************************)
(* verificationStatus of useContract  useContract.ts:81, 195-225, 292-295  *)
(***************************************************************************)
\* useState(new Map()): no address has an entry
StatusIdle ==
    /\ verificationStatus = [a \in VerifiedAddresses |-> NoResult]
    /\ vhPC = "idle"

\* new Map(prev.set(address, result))
setStatus(prev, a, result) == [prev EXCEPT ![a] = result]

\* results a caller passes to updateVerificationStatus for the contract
\* address a: what verifyContract and checkVerificationStatus return for
\* its submission on Ethereum
StatusUpdates(a) ==
    {submitResult(Guid(a.n))}
      \cup {statusResult(Guid(a.n), 1, text) :
              text \in {"Pending in queue", "Pass - Verified",
                        "Fail - Unable to verify"}}

\* verifyContractHandler(address, ...) up to its await of verifyContract
verifyContractHandler_start ==
    /\ vhPC = "idle"
    /\ vfPC \in {"idle", "returned", "threw"}
    /\ \E c \in VerifyChains, a \in VerifiedAddresses :
          verifyStartOn("verifyContract", c, a)
    /\ vhPC' = IF vfPC' = "threw" THEN "idle" ELSE "await"
    /\ UNCHANGED <<verificationStatus, pollVars>>

\* verifyContract resolved: the result is stored under the address
verifyContractHandler_ok ==
    /\ vhPC = "await"
    /\ vfPC = "returned"
    /\ verificationStatus' = setStatus(verificationStatus, vfAddress, vfResult)
    /\ vhPC' = "idle"
    /\ UNCHANGED <<vfVars, nonVerify, pollVars>>

\* verifyContract rejected: the catch block leaves the Map alone
verifyContractHandler_catch ==
    /\ vhPC = "await"
    /\ vfPC = "threw"
    /\ vhPC' = "idle"
    /\ UNCHANGED <<verificationStatus, vfVars, nonVerify, pollVars>>

\* updateVerificationStatus(address, status)
updateVerificationStatus ==
    /\ \E a \in VerifiedAddresses :
          \E status \in StatusUpdates(a) :
             verificationStatus' = setStatus(verificationStatus, a, status)
    /\ UNCHANGED <<vhPC, vfVars, nonVerify, pollVars>>

(***************************************************************************)
(* pollVerificationStatus  contractVerification.ts:199-225                 *)
(***************************************************************************)
MaxPollAttempts == 3

\* the object returned when the loop ends without a terminal result
timeoutResult(guid) ==
    [guid |-> guid, status |-> "failed",
     message |-> "Verification polling timeout", explorerUrl |-> NoUrl]

\* a loop that sleeps after every pending result
sleepsBeforeNextPoll_always(n, max) == TRUE

\* if (attempt < maxAttempts - 1) await sleep(pollInterval)
sleepsBeforeNextPoll(n, max) == n < max - 1

PollIdle ==
    /\ pollPC = "idle"
    /\ pollGuid = NoText
    /\ pollChain = NoChain
    /\ maxAttempts = 0
    /\ pollAttempt = 0
    /\ pollCalls = 0
    /\ pollSleeps = 0
    /\ pollResult = NoResult
    /\ pollSeen = <<>>

\* pollVerificationStatus(guid, chainId, maxAttempts, pollInterval) is called.
\* All the state of a poll is local to the call, so one call is followed.
poll_start ==
    /\ pollPC = "idle"
    /\ \E g \in Guids, c \in VerifyChains, m \in 1..MaxPollAttempts :
          /\ pollGuid' = g
          /\ pollChain' = c
          /\ maxAttempts' = m
    /\ pollAttempt' = 0
    /\ pollCalls' = 0
    /\ pollSleeps' = 0
    /\ pollResult' = NoResult
    /\ pollSeen' = <<>>
    /\ pollPC' = "call"
    /\ UNCHANGED <<vfVars, nonVerify, statusVars>>

\* the loop body calls checkVerificationStatus(guid, chainId)
poll_call ==
    /\ pollPC = "call"
    /\ pollAttempt < maxAttempts
    /\ verifyStartOn("checkVerificationStatus", pollChain, pollGuid)
    /\ pollCalls' = pollCalls + 1
    /\ pollPC' = "await"
    /\ UNCHANGED <<pollGuid, pollChain, maxAttempts, pollAttempt, pollSleeps,
                   pollResult, pollSeen>>
    /\ UNCHANGED statusVars

\* the awaited call returned a result
poll_result ==
    /\ pollPC = "await"
    /\ vfPC = "returned"
    /\ pollSeen' = Append(pollSeen, vfResult.status)
    /\ IF vfResult.status # "pending"
       THEN /\ pollResult' = vfResult
            /\ pollPC' = "returned"
            /\ UNCHANGED <<pollAttempt, pollSleeps>>
       ELSE IF sleepsBeforeNextPoll(pollAttempt, maxAttempts)
       THEN /\ pollPC' = "sleep"
            /\ pollSleeps' = pollSleeps + 1
            /\ UNCHANGED <<pollAttempt, pollResult>>
       ELSE /\ pollAttempt' = pollAttempt + 1
            /\ pollPC' = IF pollAttempt' < maxAttempts THEN "call" ELSE "returned"
            /\ pollResult' = IF pollAttempt' < maxAttempts
                             THEN pollResult ELSE timeoutResult(pollGuid)
            /\ UNCHANGED pollSleeps
    /\ UNCHANGED <<pollGuid, pollChain, maxAttempts, pollCalls>>
    /\ UNCHANGED <<vfVars, nonVerify, statusVars>>

\* the awaited call threw: the rejection propagates to the caller
poll_threw ==
    /\ pollPC = "await"
    /\ vfPC = "threw"
    /\ pollPC' = "threw"
    /\ UNCHANGED <<pollGuid, pollChain, maxAttempts, pollAttempt, pollCalls,
                   pollSleeps, pollResult, pollSeen>>
    /\ UNCHANGED <<vfVars, nonVerify, statusVars>>

\* the timer of sleep(pollInterval) fires: attempt++ and the loop test
poll_wake ==
    /\ pollPC = "sleep"
    /\ pollAttempt' = pollAttempt + 1
    /\ pollPC' = IF pollAttempt' < maxAttempts THEN "call" ELSE "returned"
    /\ pollResult' = IF pollAttempt' < maxAttempts
                     THEN pollResult ELSE timeoutResult(pollGuid)
    /\ UNCHANGED <<pollGuid, pollChain, maxAttempts, pollCalls, pollSleeps,
                   pollSeen>>
    /\ UNCHANGED <<vfVars, nonVerify, statusVars>>

(***************************************************************************)
(* Specification of the wallet                                             *)
(***************************************************************************)
(***************************************************************************)
(* useDarkMode  useDarkMode.ts:9-35                                        *)
(***************************************************************************)
MaxToggles == 4
MaxThemeQueue == 2

\* isDark ? 'dark' : 'light'
themeOf(dark) == IF dark THEN "dark" ELSE "light"

\* the initializer of useState
initialIsDark(stored, prefers) ==
    IF stored # Absent THEN stored = "dark" ELSE prefers

\* a toggle that negates the value of the last render: setIsDark(!isDark)
applyToggles_stale(prev, n) == IF n > 0 THEN ~prev ELSE prev

\* n queued updaters prev => !prev, run one after the other
applyToggles(prev, n) == IF n % 2 = 1 THEN ~prev ELSE prev

\* a light page of a fresh profile whose hook has mounted and run its effect
ThemeIdle ==
    /\ isDark = FALSE
    /\ ls_theme = "light"
    /\ dataTheme = "light"
    /\ prefersDark = FALSE
    /\ themePC = "idle"
    /\ themeQueue = 0
    /\ themeAtStart = Absent
    /\ toggles = 0

ThemeFrame ==
    UNCHANGED <<walletVars, swVars, regVars, vfVars, pollVars, queueVars,
                statusVars, listenerVars, shapeVars, workerVars>>

\* the first render: useState runs its initializer
useDarkMode_init ==
    /\ themePC = "init"
    /\ isDark' = initialIsDark(ls_theme, prefersDark)
    /\ themeAtStart' = ls_theme
    /\ themePC' = "effect"
    /\ UNCHANGED <<ls_theme, dataTheme, prefersDark, themeQueue, toggles>>
    /\ ThemeFrame

\* the effect with dependency [isDark]
themeEffect ==
    /\ themePC = "effect"
    /\ dataTheme' = themeOf(isDark)
    /\ ls_theme' = themeOf(isDark)
    /\ themePC' = "idle"
    /\ UNCHANGED <<isDark, prefersDark, themeQueue, themeAtStart, toggles>>
    /\ ThemeFrame

\* toggle(): setIsDark(prev => !prev) queues an updater
toggle ==
    /\ themePC \in {"effect", "idle"}
    /\ toggles < MaxToggles
    /\ themeQueue < MaxThemeQueue
    /\ themeQueue' = themeQueue + 1
    /\ toggles' = toggles + 1
    /\ UNCHANGED <<isDark, ls_theme, dataTheme, prefersDark, themePC,
                   themeAtStart>>
    /\ ThemeFrame

\* the next render, after the effect of the render before: the queued
\* updaters run, and the effect is due if isDark differs from the value of
\* the render before
themeRender ==
    /\ themePC = "idle"
    /\ themeQueue > 0
    /\ isDark' = applyToggles(isDark, themeQueue)
    /\ themeQueue' = 0
    /\ themePC' = IF isDark' # isDark THEN "effect" ELSE "idle"
    /\ UNCHANGED <<ls_theme, dataTheme, prefersDark, themeAtStart, toggles>>
    /\ ThemeFrame

(***************************************************************************)
(* WebWorkerCompiler (webWorkerCompiler.ts) and its worker                 *)
(* (solc-worker.js).  Messages travel in order in each direction; the      *)
(* worker handles one message at a time.                                   *)
(***************************************************************************)
MaxCalls == 2
MaxSource == 2

CallIds == 1..MaxCalls
CompileNames == {"Token", "Vault"}
\* what a call compiles: a source text under a contract name
CompileInputs == [name : CompileNames, src : 1..MaxSource]
NoInput == [name |-> "none", src |-> 0]

\* solc.compile(input): the output JSON.  It is made from the input it was
\* given; hasContract tells whether output.contracts holds the contract
\* (it does not when the source has errors)
solcCompile(input, hasContract) ==
    [name |-> input.name, src |-> input.src, hasContract |-> hasContract]
NoOutput == [name |-> "none", src |-> 0, hasContract |-> FALSE]

\* processCompilationResult(output, contractName) throws 'Contract ... not
\* found in compiled output'
processThrows(output, contractName) ==
    ~output.hasContract \/ output.name # contractName

\* messages
InitMsg == [type |-> "INIT", input |-> NoInput]
CompileMsg(input) == [type |-> "COMPILE", input |-> input]
InitResponse == [type |-> "INIT_RESPONSE", output |-> NoOutput]
CompileResponse(output) == [type |-> "COMPILE_RESPONSE", output |-> output]
ErrorMsg == [type |-> "ERROR", output |-> NoOutput]

\* new WebWorkerCompiler(): the worker exists, nothing has been sent
WorkerIdle ==
    /\ isInitialized = FALSE
    /\ workerInitialized = FALSE
    /\ toWorker = <<>>
    /\ toMain = <<>>
    /\ callPC = [i \in CallIds |-> "idle"]
    /\ callInput = [i \in CallIds |-> NoInput]
    /\ callResult = [i \in CallIds |-> NoOutput]

WorkerFrame ==
    UNCHANGED <<walletVars, swVars, regVars, vfVars, pollVars, queueVars,
                statusVars, listenerVars, shapeVars, themeVars>>

\* compileContract(sourceCode, contractName) up to its first suspension:
\* with the compiler initialized it registers its listener, arms the
\* timeout and posts COMPILE; otherwise initialize() posts INIT and the
\* call waits in waitForInitialization
compileContract_start ==
    /\ \E i \in CallIds, input \in CompileInputs :
          /\ callPC[i] = "idle"
          /\ callInput' = [callInput EXCEPT ![i] = input]
          /\ IF isInitialized
             THEN /\ callPC' = [callPC EXCEPT ![i] = "listening"]
                  /\ toWorker' = Append(toWorker, CompileMsg(input))
             ELSE /\ callPC' = [callPC EXCEPT ![i] = "waitInit"]
                  /\ toWorker' = Append(toWorker, InitMsg)
    /\ UNCHANGED <<isInitialized, workerInitialized, toMain, callResult>>
    /\ WorkerFrame

\* checkInit finds isInitialized true: the promise of
\* waitForInitialization resolves and the call goes on to post COMPILE
\* (while isInitialized is false checkInit only re-arms its 100 ms timer)
compileContract_initialized ==
    /\ isInitialized
    /\ \E i \in CallIds :
          /\ callPC[i] = "waitInit"
          /\ callPC' = [callPC EXCEPT ![i] = "listening"]
          /\ toWorker' = Append(toWorker, CompileMsg(callInput[i]))
    /\ UNCHANGED <<isInitialized, workerInitialized, toMain, callInput,
                   callResult>>
    /\ WorkerFrame

\* the 30 s timer of a call fires before a COMPILE_RESPONSE was delivered
compileContract_timeout ==
    /\ \E i \in CallIds :
          /\ callPC[i] = "listening"
          /\ callPC' = [callPC EXCEPT ![i] = "rejected"]
    /\ UNCHANGED <<isInitialized, workerInitialized, toWorker, toMain,
                   callInput, callResult>>
    /\ WorkerFrame

\* the worker handles INIT: it loads solc if it has not, and answers
\* INIT_RESPONSE, or ERROR when loading threw
worker_INIT ==
    /\ toWorker # <<>>
    /\ Head(toWorker).type = "INIT"
    /\ toWorker' = Tail(toWorker)
    /\ \E loads \in BOOLEAN :
          IF workerInitialized \/ loads
          THEN /\ workerInitialized' = TRUE
               /\ toMain' = Append(toMain, InitResponse)
          ELSE /\ toMain' = Append(toMain, ErrorMsg)
               /\ UNCHANGED workerInitialized
    /\ UNCHANGED <<isInitialized, callPC, callInput, callResult>>
    /\ WorkerFrame

\* the worker handles COMPILE: it loads solc if it has not, compiles the
\* input of the message and answers COMPILE_RESPONSE, or ERROR when
\* loading or compiling threw
worker_COMPILE ==
    /\ toWorker # <<>>
    /\ Head(toWorker).type = "COMPILE"
    /\ toWorker' = Tail(toWorker)
    /\ \E loads \in BOOLEAN, outcome \in {"compiled", "sourceErrors", "threw"} :
          IF ~(workerInitialized \/ loads)
          THEN /\ toMain' = Append(toMain, ErrorMsg)
               /\ UNCHANGED workerInitialized
          ELSE /\ workerInitialized' = TRUE
               /\ toMain' =
                    Append(toMain,
                           IF outcome = "threw" THEN ErrorMsg
                           ELSE CompileResponse(
                                  solcCompile(Head(toWorker).input,
                                              outcome = "compiled")))
    /\ UNCHANGED <<isInitialized, callPC, callInput, callResult>>
    /\ WorkerFrame

\* a message of the worker is delivered: handleWorkerMessage runs, and so
\* does the handleMessage listener of every call that has registered one
\* and not yet removed it
deliver ==
    /\ toMain # <<>>
    /\ toMain' = Tail(toMain)
    /\ LET msg == Head(toMain)
       IN /\ isInitialized' = (isInitialized \/ msg.type = "INIT_RESPONSE")
          /\ IF msg.type = "COMPILE_RESPONSE"
             THEN /\ callPC' =
                       [i \in CallIds |->
                          IF callPC[i] # "listening" THEN callPC[i]
                          ELSE IF processThrows(msg.output, callInput[i].name)
                               THEN "threw" ELSE "resolved"]
                  /\ callResult' =
                       [i \in CallIds |->
                          IF callPC[i] = "listening"
                             /\ ~processThrows(msg.output, callInput[i].name)
                          THEN msg.output ELSE callResult[i]]
             ELSE UNCHANGED <<callPC, callResult>>
    /\ UNCHANGED <<workerInitialized, toWorker, callInput>>
    /\ WorkerFrame

\* the parts modelled apart from the wallet, once the page has mounted
LaterIdle ==
    /\ ListenersMounted
    /\ ShapeIdle
    /\ ThemeIdle
    /\ WorkerIdle

StoredFlags ==
    {<<Absent, NoAddr>>} \cup {<<"true", a>> : a \in Addr}

WalletInit ==
    /\ ethereum \in {"none", "other", "metamask"}
    /\ providerChain \in Chains
    /\ address = NoAddr
    /\ isConnected = FALSE
    /\ chainId = NoChain
    /\ signer = NoAddr
    /\ isLoading = FALSE
    /\ error = NoError
    /\ \E f \in StoredFlags :
          /\ ls_wallet_connected = f[1]
          /\ ls_wallet_address = f[2]
    /\ connectPC = "idle"
    /\ arPC = "start"
    /\ connectPre = [state |-> Disconnected, flags |-> <<Absent, NoAddr>>]
    /\ connectClean = FALSE
    /\ reported = NoAddr
    /\ walletLast = "init"

\* the registry of a fresh browser profile, before the mount effects
RegistryWith(pc, stored) ==
    /\ deployedContracts = <<>>
    /\ ls_deployed_contracts = stored
    /\ regPC = pc
    /\ selectedChainId = 1
    /\ now = 1
    /\ dpPC = "idle"
    /\ dpVariant = "app"
    /\ dpChain = NoChain
    /\ dpTx = 0
    /\ dpAddress = 0
    /\ txSubmitted = 0
    /\ invocations = 0
    /\ totalTx = 0
    /\ dpTxChain = NoChain
    /\ preReload = <<>>
    /\ lastAdded = NoRecord
    /\ regLast = "init"

RegistryFrom(pc) == RegistryWith(pc, NoStored)

RegistryInit == RegistryFrom("mount")
\* the same profile once both mount effects have run
RegistryMounted == RegistryFrom("ready")

Init == WalletInit /\ RegistryInit /\ VerifyIdle /\ SwitchIdle /\ PollIdle /\ QueueIdle /\ StatusIdle /\ LaterIdle /\ apiKeySet = TRUE

Next ==
    \/ connect_notInstalled
    \/ connect_start
    \/ connect_connectWallet_fail
    \/ connect_connectWallet_ok
    \/ connect_chainId_ok
    \/ connect_chainId_fail
    \/ disconnect
    \/ handleAccountsChanged
    \/ handleChainChanged
    \/ autoReconnect_start
    \/ autoReconnect_accounts
    \/ autoReconnect_chainId
    \/ autoReconnect_getSigner
    \/ autoReconnect_catch

Spec == Init /\ [][Next]_vars

(***************************************************************************)
(* Specification of the registry: mount, add, remove, reload.  The wallet  *)
(* stays as a fresh page has it.                                           *)
(***************************************************************************)
WalletFresh ==
    /\ ethereum = "metamask"
    /\ providerChain = 1
    /\ address = NoAddr
    /\ isConnected = FALSE
    /\ chainId = NoChain
    /\ signer = NoAddr
    /\ isLoading = FALSE
    /\ error = NoError
    /\ ls_wallet_connected = Absent
    /\ ls_wallet_address = NoAddr
    /\ connectPC = "idle"
    /\ arPC = "start"
    /\ connectPre = [state |-> Disconnected, flags |-> <<Absent, NoAddr>>]
    /\ connectClean = FALSE
    /\ reported = NoAddr
    /\ walletLast = "init"

InitRegistry == WalletFresh /\ RegistryInit /\ VerifyIdle /\ SwitchIdle /\ PollIdle /\ QueueIdle /\ StatusIdle /\ LaterIdle /\ apiKeySet = TRUE

NextRegistry ==
    \/ loadDeployedContracts
    \/ appLoadEffect
    \/ saveDeployedContract
    \/ removeDeployedContract
    \/ reload

SpecRegistry == InitRegistry /\ [][NextRegistry]_vars

(***************************************************************************)
(* Specification of the deployments: the page has mounted, the wallet is   *)
(* connected and only changes chain.                                       *)
(***************************************************************************)
WalletConnected ==
    /\ ethereum = "metamask"
    /\ providerChain \in Chains
    /\ address = getAddress([id |-> 1, form |-> "lower"])
    /\ isConnected = TRUE
    /\ chainId = providerChain
    /\ signer = address
    /\ isLoading = FALSE
    /\ error = NoError
    /\ ls_wallet_connected = "true"
    /\ ls_wallet_address = address
    /\ connectPC = "idle"
    /\ arPC = "done"
    /\ connectPre = [state |-> Disconnected, flags |-> <<Absent, NoAddr>>]
    /\ connectClean = FALSE
    /\ reported = NoAddr
    /\ walletLast = "init"

InitDeploy == WalletConnected /\ RegistryMounted /\ VerifyIdle /\ SwitchIdle /\ PollIdle /\ QueueIdle /\ StatusIdle /\ LaterIdle /\ apiKeySet = TRUE

NextDeploy ==
    \/ setSelectedChainId
    \/ handleChainChanged
    \/ deploy_start
    \/ deploy_estimateGas_ok
    \/ deploy_estimateGas_fail
    \/ deploy_submit_ok
    \/ deploy_submit_fail
    \/ deploy_wait_ok
    \/ deploy_wait_fail
    \/ deploy_finish_ok
    \/ deploy_finish_fail

SpecDeploy == InitDeploy /\ [][NextDeploy]_vars

(***************************************************************************)
(* Specification of the network switches: the page has mounted, the wallet *)
(* is connected or not, and the provider events interleave with the calls  *)
(* of switchNetwork.                                                       *)
(***************************************************************************)
InitSwitch ==
    /\ WalletConnected \/ WalletFresh
    /\ RegistryMounted
    /\ VerifyIdle
    /\ SwitchIdle
    /\ PollIdle
    /\ QueueIdle
    /\ StatusIdle
    /\ LaterIdle
    /\ apiKeySet = TRUE

NextSwitch ==
    \/ switchNetwork_notConnected
    \/ switchNetwork_start
    \/ switchNetwork_switch_ok
    \/ switchNetwork_switch_unknown
    \/ switchNetwork_switch_fail
    \/ switchNetwork_add_ok
    \/ switchNetwork_add_fail
    \/ disconnect
    \/ handleAccountsChanged
    \/ handleChainChanged

SpecSwitch == InitSwitch /\ [][NextSwitch]_vars

(***************************************************************************)
(* Specification of the session restore: autoReconnect alone, from every   *)
(* provider and every content of the two flags.                            *)
(***************************************************************************)
InitRestore == WalletInit /\ RegistryInit /\ VerifyIdle /\ SwitchIdle /\ PollIdle /\ QueueIdle /\ StatusIdle /\ LaterIdle /\ apiKeySet = TRUE

NextRestore ==
    \/ autoReconnect_start
    \/ autoReconnect_accounts
    \/ autoReconnect_chainId
    \/ autoReconnect_getSigner
    \/ autoReconnect_catch

SpecRestore == InitRestore /\ [][NextRestore]_vars

(***************************************************************************)
(* Specification of the verification calls                                 *)
(***************************************************************************)
InitVerify ==
    /\ WalletFresh
    /\ RegistryMounted
    /\ VerifyIdle
    /\ SwitchIdle
    /\ PollIdle
    /\ QueueIdle
    /\ StatusIdle
    /\ LaterIdle
    /\ apiKeySet \in BOOLEAN

NextVerify ==
    \/ verify_start
    \/ verify_request
    \/ verify_wake

SpecVerify == InitVerify /\ [][NextVerify]_vars

(***************************************************************************)
(* Specification of a start of the page on any value stored under          *)
(* deployed_contracts, followed by adds and removes.                       *)
(***************************************************************************)
\* a record written by an earlier session
storedRecord(a) ==
    [address |-> a, contractName |-> "Token", chainId |-> 1,
     transactionHash |-> 0, deployedAt |-> Date(0)]

StoredValues ==
    {NoStored, Garbage, StoredObject, JSONstringify(<<>>)}
      \cup {JSONstringify(<<storedRecord(a)>>) : a \in ContractAddrs}

InitStartup ==
    /\ WalletFresh
    /\ \E stored \in StoredValues : RegistryWith("mount", stored)
    /\ VerifyIdle
    /\ SwitchIdle
    /\ PollIdle
    /\ QueueIdle
    /\ StatusIdle
    /\ LaterIdle
    /\ apiKeySet = TRUE

NextStartup ==
    \/ loadDeployedContracts
    \/ loadDeployedContracts_malformed
    \/ appLoadEffect
    \/ appLoadEffect_malformed
    \/ saveDeployedContract
    \/ saveDeployedContract_notArray
    \/ removeDeployedContract
    \/ removeDeployedContract_notArray

SpecStartup == InitStartup /\ [][NextStartup]_vars

(***************************************************************************)
(* Specification of useDarkMode: the first render on any stored theme and  *)
(* system preference, then toggle() calls, renders and effects.            *)
(***************************************************************************)
\* values of 'theme' a page can start on: none, or one the hook has written
StoredThemes == {Absent, "dark", "light"}

InitTheme ==
    /\ WalletFresh
    /\ RegistryMounted
    /\ VerifyIdle
    /\ SwitchIdle
    /\ PollIdle
    /\ QueueIdle
    /\ StatusIdle
    /\ ListenersMounted
    /\ ShapeIdle
    /\ WorkerIdle
    /\ isDark = FALSE
    /\ ls_theme \in StoredThemes
    /\ dataTheme \in StoredThemes
    /\ prefersDark \in BOOLEAN
    /\ themePC = "init"
    /\ themeQueue = 0
    /\ themeAtStart = Absent
    /\ toggles = 0
    /\ apiKeySet = TRUE

NextTheme ==
    \/ useDarkMode_init
    \/ themeEffect
    \/ toggle
    \/ themeRender

SpecTheme == InitTheme /\ [][NextTheme]_vars

(***************************************************************************)
(* Specification of the compiler: compileContract calls, the worker and    *)
(* the messages between them.  Messages are handled and delivered, timers  *)
(* fire and waiting calls are resumed, hence the fairness on every step    *)
(* but the start of a call.                                                *)
(***************************************************************************)
InitWorker ==
    /\ WalletFresh
    /\ RegistryMounted
    /\ VerifyIdle
    /\ SwitchIdle
    /\ PollIdle
    /\ QueueIdle
    /\ StatusIdle
    /\ LaterIdle
    /\ apiKeySet = TRUE

WorkerProgress ==
    \/ compileContract_initialized
    \/ compileContract_timeout
    \/ worker_INIT
    \/ worker_COMPILE
    \/ deliver

NextWorker ==
    \/ compileContract_start
    \/ compileContract_initialized
    \/ compileContract_timeout
    \/ worker_INIT
    \/ worker_COMPILE
    \/ deliver

SpecWorker == InitWorker /\ [][NextWorker]_vars /\ WF_vars(WorkerProgress)

(***************************************************************************)
(* Specification of the provider subscriptions: the listener effect and    *)
(* its cleanup, connect, disconnect and the events the provider emits to   *)
(* the registered handlers.                                                *)
(***************************************************************************)
InitListeners ==
    /\ WalletInit
    /\ RegistryMounted
    /\ VerifyIdle
    /\ SwitchIdle
    /\ PollIdle
    /\ QueueIdle
    /\ StatusIdle
    /\ listeners = NoListeners
    /\ lePC = "pending"
    /\ ShapeIdle
    /\ ThemeIdle
    /\ WorkerIdle
    /\ apiKeySet = TRUE

NextListeners ==
    \/ listenerEffect
    \/ listenerCleanup
    \/ connect_notInstalled
    \/ connect_start
    \/ connect_connectWallet_fail
    \/ connect_connectWallet_ok
    \/ connect_chainId_ok
    \/ connect_chainId_fail
    \/ disconnect
    \/ emit_accountsChanged
    \/ emit_chainChanged

SpecListeners == InitListeners /\ [][NextListeners]_vars

(***************************************************************************)
(* Specification of the verification status Map: calls of                  *)
(* verifyContractHandler, with the requests of the verifyContract they     *)
(* await, and calls of updateVerificationStatus.                           *)
(***************************************************************************)
NextStatus ==
    \/ verifyContractHandler_start
    \/ verify_request
    \/ verify_wake
    \/ verifyContractHandler_ok
    \/ verifyContractHandler_catch
    \/ updateVerificationStatus

SpecStatus == InitVerify /\ [][NextStatus]_vars

(***************************************************************************)
(* Specification of the status polling: pollVerificationStatus and the     *)
(* calls of checkVerificationStatus it awaits.  Requests settle and timers *)
(* fire, hence the fairness on every step but the start of a new poll.     *)
(***************************************************************************)
InitPoll ==
    /\ WalletFresh
    /\ RegistryMounted
    /\ VerifyIdle
    /\ SwitchIdle
    /\ PollIdle
    /\ QueueIdle
    /\ StatusIdle
    /\ LaterIdle
    /\ apiKeySet \in BOOLEAN

PollProgress ==
    \/ poll_call
    \/ verify_request
    \/ verify_wake
    \/ poll_result
    \/ poll_threw
    \/ poll_wake

NextPoll ==
    \/ poll_start
    \/ poll_call
    \/ verify_request
    \/ verify_wake
    \/ poll_result
    \/ poll_threw
    \/ poll_wake

SpecPoll == InitPoll /\ [][NextPoll]_vars /\ WF_vars(PollProgress)

(***************************************************************************)
(* Specification of the registry updates: calls of add and remove, from    *)
(* the UI and from completing deployments, interleaved with the renders    *)
(* that run their updaters.                                                *)
(***************************************************************************)
InitQueue ==
    /\ WalletFresh
    /\ RegistryMounted
    /\ VerifyIdle
    /\ SwitchIdle
    /\ PollIdle
    /\ QueueIdle
    /\ StatusIdle
    /\ LaterIdle
    /\ apiKeySet = TRUE

NextQueue ==
    \/ call_saveDeployedContract
    \/ deployContractHandler_done
    \/ call_removeDeployedContract
    \/ render

SpecQueue == InitQueue /\ [][NextQueue]_vars

(***************************************************************************)
(* Specification of the panel: add, remove and the display of the list     *)
(***************************************************************************)
NextDisplay ==
    \/ saveDeployedContract
    \/ removeDeployedContract
    \/ displayDeployedContracts

SpecDisplay == InitQueue /\ [][NextDisplay]_vars

(***************************************************************************)
(* Claims about the wallet                                                 *)
(***************************************************************************)
\* C1: after any sequence of connect, disconnect, accountsChanged and
\* chainChanged, isConnected is true if and only if address is non-null.
C1_ConnectedIffAddress == isConnected <=> (address # NoAddr)

\* C9: when a connect() call that no other handler interleaved with has
\* failed, the ConnectionState equals the state at the time of the call.
C9_FailedConnectKeepsState ==
    (walletLast = "connect.fail" /\ connectClean)
        => ConnectionState = connectPre.state

\* C10: a connect() that started Disconnected with no persisted flags and
\* succeeded for account A on chain c ends with address = lowercase(A),
\* isConnected, chainId = c, a signer, and both flags persisted.
C10_ConnectSucceeds ==
    ( /\ walletLast = "connect.ok"
      /\ connectClean
      /\ connectPre.state = Disconnected
      /\ connectPre.flags = <<Absent, NoAddr>> )
        => /\ address = toLowerCase(reported)
           /\ isConnected
           /\ chainId = providerChain
           /\ signer # NoAddr
           /\ ls_wallet_connected = "true"
           /\ ls_wallet_address = address

(***************************************************************************)
(* Claims about the registry (SpecRegistry)                                *)
(***************************************************************************)
SameKey(r) == {i \in 1..Len(deployedContracts) : KeyOf(deployedContracts[i]) = KeyOf(r)}

\* C2: after saveDeployedContract(record) the list holds exactly one record
\* with the key (address, chainId) of the record, and it is that record.
C2_AddIdempotentOnKey ==
    regLast = "add"
        => /\ Cardinality(SameKey(lastAdded)) = 1
           /\ \A i \in SameKey(lastAdded) : deployedContracts[i] = lastAdded

\* C3: the list the startup load reads back is field for field the list
\* that was persisted, deployedAt being a Date again.
C3_RecordRoundTrip ==
    regPC = "appEffect"
        => /\ deployedContracts = preReload
           /\ \A i \in 1..Len(deployedContracts) :
                 deployedContracts[i].deployedAt.type = "Date"

(***************************************************************************)
(* Claims about the deployments (SpecDeploy)                               *)
(***************************************************************************)
\* C7: the record a deployment has just stored names the chain its
\* deployment transaction was submitted on.
C7_RecordChainIsSignerChain ==
    (regLast = "deploy.ok" /\ lastAdded # NoRecord)
        => /\ lastAdded.transactionHash = dpTx
           /\ lastAdded.chainId = dpTxChain
           /\ Last(deployedContracts) = lastAdded

\* C8: one deploy invocation submits at most one transaction, and there are
\* never more deployment transactions than invocations.
C8_AtMostOneTransaction ==
    /\ txSubmitted <= 1
    /\ totalTx <= invocations

\* a deployment that failed after its transaction was submitted
C8_Witness ==
    /\ regLast = "deploy.fail"
    /\ dpPC = "idle"
    /\ txSubmitted = 1

\* C28: when a deployment fails at the lookup of the network descriptor,
\* which follows the confirmation of its transaction, exactly one
\* transaction of the invocation has been submitted and confirmed, no
\* record is handed to the caller and the registry is left as it was.
C28_LookupAfterConfirmation ==
    [][(dpPC = "getNetwork" /\ regLast' = "deploy.fail")
          => /\ txSubmitted' = 1
             /\ dpTx' # 0
             /\ dpAddress' # 0
             /\ lastAdded' = NoRecord
             /\ deployedContracts' = deployedContracts
             /\ ls_deployed_contracts' = ls_deployed_contracts]_vars

\* a deployment through the hook has failed at the lookup
C28_Witness ==
    /\ regLast = "deploy.fail"
    /\ dpPC = "idle"
    /\ dpVariant = "hook"
    /\ txSubmitted = 1
    /\ dpAddress # 0
    /\ ~isNetworkSupported(dpChain)

(***************************************************************************)
(* Claims about the verification calls (SpecVerify)                        *)
(***************************************************************************)
Transient == {"network", "http500"}
Front(seq) == SubSeq(seq, 1, Len(seq) - 1)
AllIn(seq, S) == \A i \in 1..Len(seq) : seq[i] \in S

\* total sleep before the (k+1)th attempt, k = 0..4, as the claim lists it
BackoffTotal == <<0, 1000, 3000, 7000, 15000>>

\* C4: when k <= 4 transient failures are followed by a success, the call
\* has returned after k+1 requests and a total sleep of BackoffTotal[k+1].
C4_RetryBackoffLaw ==
    ( /\ Len(outcomes) >= 1
      /\ Last(outcomes) = "ok"
      /\ AllIn(Front(outcomes), Transient) )
        => /\ vfPC = "returned"
           /\ Len(outcomes) <= 5
           /\ httpAttempts = Len(outcomes)
           /\ Len(sleeps) = Len(outcomes) - 1
           /\ SumSeq(sleeps) = BackoffTotal[Len(outcomes)]

\* four transient failures, then the fifth attempt succeeds
C4_Witness ==
    /\ vfFn = "checkVerificationStatus"
    /\ vfPC = "returned"
    /\ Len(outcomes) = 5
    /\ AllIn(Front(outcomes), Transient)

\* C5: in verifyContract a 400 response ends the call at once: the call has
\* thrown, with one request per outcome and no sleep after the 400.
C5_Status400EndsSubmit ==
    ( /\ vfFn = "verifyContract"
      /\ Len(outcomes) >= 1
      /\ Last(outcomes) = "http400" )
        => /\ vfPC = "threw"
           /\ httpAttempts = Len(outcomes)
           /\ Len(sleeps) = Len(outcomes) - 1
           /\ (Len(outcomes) = 1 => httpAttempts = 1 /\ sleeps = <<>>)

\* the 400 arrives on the first attempt
C5_Witness ==
    /\ vfFn = "verifyContract"
    /\ outcomes = <<"http400">>
    /\ vfPC = "threw"

\* C6: in both functions every 4xx response ends the call at once, with no
\* sleep after it.
C6_Every4xxIsPermanent ==
    ( /\ Len(outcomes) >= 1
      /\ Last(outcomes) \in {"http400", "http404"} )
        => /\ vfPC = "threw"
           /\ Len(sleeps) = Len(outcomes) - 1

C12_SwitchAddSwitch ==
    (walletLast = "switchNetwork.ok" /\ Len(requests) >= 2)
        => requests = <<switchRequest(swTarget),
                        addRequest(networks(swTarget)),
                        switchRequest(swTarget)>>

(***************************************************************************)
(* Claims about the session restore and the provider events                *)
(***************************************************************************)
Connected ==
    /\ isConnected
    /\ address # NoAddr
    /\ chainId # NoChain
    /\ signer # NoAddr

\* C13: when autoReconnect has ended, no error is set; the state is
\* Connected if every step succeeded and Disconnected in every other case;
\* after an empty account list the two flags are removed.
C13_RestoreSession ==
    arPC = "done"
        => /\ error = NoError
           /\ walletLast = "autoReconnect.ok" => Connected
           /\ walletLast # "autoReconnect.ok" => ConnectionState = Disconnected
           /\ walletLast = "autoReconnect.noAccounts"
                 => /\ ls_wallet_connected = Absent
                    /\ ls_wallet_address = NoAddr

\* C14: accountsChanged with an empty list is a step of disconnect();
\* accountsChanged with a non-empty list sets address to its first entry
\* and leaves isConnected and chainId as they are.
C14_AccountsChanged ==
    [][ \A accounts \in AccountLists :
          handleAccountsChangedOn(accounts)
            => IF Len(accounts) = 0
               THEN /\ disconnectState
                    /\ ConnectionState' = Disconnected
                    /\ ls_wallet_connected' = Absent
                    /\ ls_wallet_address' = NoAddr
               ELSE /\ address' = accounts[1]
                    /\ isConnected' = isConnected
                    /\ chainId' = chainId ]_vars

\* a connected wallet after the user picked another account in the wallet
C14_Witness ==
    /\ walletLast = "accountsChanged"
    /\ Connected
    /\ address \in ProviderAddr
    /\ signer # address

(***************************************************************************)
(* Claims about the results of the verification calls                      *)
(***************************************************************************)
\* the contract address the submission with the guid was made for
addressOfGuid(g) == ContractAddress(g.n)

\* C15: a checkVerificationStatus call that returned maps 'Pending in
\* queue' to pending, 'Pass - Verified' to success and any other text to
\* failed with the text as message; explorerUrl is set only for success and
\* is then the explorer URL of the chain, /address/, the contract address.
C15_StatusMapping ==
    (vfFn = "checkVerificationStatus" /\ vfPC = "returned")
        => /\ vfResult.guid = vfGuid
           /\ vfText = "Pending in queue" => vfResult.status = "pending"
           /\ vfText = "Pass - Verified" => vfResult.status = "success"
           /\ vfText \notin {"Pending in queue", "Pass - Verified"}
                 => /\ vfResult.status = "failed"
                    /\ vfResult.message = vfText
           /\ vfResult.status # "success" => vfResult.explorerUrl = NoUrl
           /\ vfResult.status = "success"
                 => vfResult.explorerUrl =
                      [base |-> getExplorerUrl(vfChain), path |-> "/address/",
                       tail |-> addressOfGuid(vfGuid)]

\* C17: when all five attempts of a call fail transiently, the call has
\* thrown after five requests and the sleeps 1000, 2000, 4000, 8000, and
\* its error carries the failure of the fifth attempt.
C17_ExhaustedRetries ==
    (Len(outcomes) = maxRetries /\ AllIn(outcomes, Transient))
        => /\ vfPC = "threw"
           /\ httpAttempts = 5
           /\ sleeps = <<1000, 2000, 4000, 8000>>
           /\ vfError.kind = "exhausted"
           /\ vfError.last = outcomes[5]

\* the first and the fifth failure differ
C17_Witness ==
    /\ vfFn = "verifyContract"
    /\ vfPC = "threw"
    /\ Len(outcomes) = 5
    /\ AllIn(outcomes, Transient)
    /\ outcomes[1] # outcomes[5]

(***************************************************************************)
(* Claims about the status polling (SpecPoll)                              *)
(***************************************************************************)
AllPending(seq) == AllIn(seq, {"pending"})

\* C16: a poll never makes more than maxAttempts calls; it returns the
\* first non-pending result right after the call that produced it; when
\* every result is pending it returns the timeout result after exactly
\* maxAttempts calls and maxAttempts - 1 sleeps; and every poll ends.
C16_PollTerminates ==
    /\ []( /\ pollCalls <= maxAttempts
           /\ pollSleeps <= pollCalls
           /\ Len(pollSeen) <= pollCalls
           /\ AllPending(Front(pollSeen))
           /\ pollPC = "returned"
                 => /\ Len(pollSeen) = pollCalls
                    /\ IF AllPending(pollSeen)
                       THEN /\ pollResult = timeoutResult(pollGuid)
                            /\ pollCalls = maxAttempts
                            /\ pollSleeps = maxAttempts - 1
                       ELSE /\ pollResult = vfResult
                            /\ pollResult.status # "pending"
                            /\ pollSleeps = pollCalls - 1 )
    /\ (pollPC \in {"call", "await", "sleep"}) ~> (pollPC \in {"returned", "threw"})

\* three pending results: the poll timed out
C16_Witness ==
    /\ pollPC = "returned"
    /\ maxAttempts = 3
    /\ pollSeen = <<"pending", "pending", "pending">>
    /\ pollResult = timeoutResult(pollGuid)

(***************************************************************************)
(* Claims about removing from the registry (SpecRegistry)                  *)
(***************************************************************************)
RECURSIVE FilterKey(_, _)
\* the list without the records of the identity key
FilterKey(seq, key) ==
    IF seq = <<>> THEN <<>>
    ELSE IF KeyOf(Head(seq)) # key
         THEN <<Head(seq)>> \o FilterKey(Tail(seq), key)
         ELSE FilterKey(Tail(seq), key)

\* C18: a removal deletes the record of one identity key (address, chainId)
\* and leaves every other record, in particular a record with the same
\* address on another chain.
C18_RemoveByKey ==
    [][ \A a \in ContractAddrs :
          removeDeployedContractOn(a)
            => \E c \in SelectableChains :
                  deployedContracts' = FilterKey(deployedContracts, <<a, c>>) ]_vars

InsertionOrder(seq) ==
    \A i, j \in 1..Len(seq) :
        i < j => seq[i].transactionHash < seq[j].transactionHash

\* C20: the list of the registry and the list last persisted hold the
\* records in the order they were added, whatever has been displayed.
C20_DisplayKeepsOrder ==
    /\ InsertionOrder(deployedContracts)
    /\ InsertionOrder(ls_deployed_contracts.items)

\* C21: once the status stored for a contract address is success or failed,
\* no later verifyContract call and no later updateVerificationStatus call
\* changes the stored status of that address.
C21_TerminalStatus ==
    [][\A a \in VerifiedAddresses :
          verificationStatus[a].status \in {"success", "failed"}
             => verificationStatus'[a].status = verificationStatus[a].status]_vars

\* C22: at most one accountsChanged handler and at most one chainChanged
\* handler of the hook is registered with the provider at any time, and
\* once disconnect() has run no handler remains registered.
C22_HandlersPerSession ==
    /\ listeners.accountsChanged <= 1
    /\ listeners.chainChanged <= 1
    /\ (walletLast = "disconnect" => listeners = NoListeners)

\* C23: whatever is stored under deployed_contracts, no updater of the
\* registry throws, and once both mount effects have run the state holds a
\* list.
C23_StartupTolerates ==
    /\ ~renderError
    /\ (regPC = "ready" => deployedShape = "array")

\* C25: when the page starts on a stored list of n records, the mount
\* effect of App (the second of the two) leaves the persisted list as it
\* was and the in-memory list equal to the n records parsed from it.
C25_StartupKeepsRegistry ==
    [][(/\ regPC = "appEffect"
        /\ regPC' = "ready"
        /\ ls_deployed_contracts.kind = "array")
          => /\ ls_deployed_contracts' = ls_deployed_contracts
             /\ deployedContracts' = JSONparse(ls_deployed_contracts)]_vars

\* C27: a response with HTTP success and status '0' is a failed attempt
\* like any other: before the fifth attempt the call sleeps the backoff
\* delay and sends the request again, and when the fifth attempt ends this
\* way the call throws the error of exhausted retries, which carries the
\* explorer's error text.
C27_Status0IsRetried ==
    (Len(outcomes) >= 1 /\ Last(outcomes) = "status0")
        => /\ httpAttempts = Len(outcomes)
           /\ IF Len(outcomes) < 5
              THEN /\ vfPC \in {"sleep", "request"}
                   /\ sleeps = SubSeq(<<1000, 2000, 4000, 8000>>, 1, Len(outcomes))
                   /\ attempt = (IF vfPC = "sleep" THEN Len(outcomes) - 1
                                 ELSE Len(outcomes))
              ELSE /\ vfPC = "threw"
                   /\ Len(outcomes) = 5
                   /\ vfError = [kind |-> "exhausted", last |-> "status0"]

\* the explorer rejected all five requests of a verifyContract call
C27_Witness ==
    /\ vfFn = "verifyContract"
    /\ vfPC = "threw"
    /\ outcomes = <<"status0", "status0", "status0", "status0", "status0">>

\* C26: whenever isConnected is true and no connect, restoreSession or
\* switchNetwork call is in flight, storage holds wallet_connected = 'true'
\* and wallet_address equal to the current address.
C26_FlagsWhileConnected ==
    (/\ isConnected
     /\ connectPC = "idle"
     /\ arPC \in {"start", "done"}
     /\ swPC = "idle")
        => /\ ls_wallet_connected = "true"
           /\ ls_wallet_address = address

(***************************************************************************)
(* Claims about useDarkMode                                                *)
(***************************************************************************)
\* C24: the first render takes isDark from the stored theme when there is
\* one and from the system preference otherwise; and whenever every
\* toggle() call has been rendered and the effect has run, isDark has
\* flipped once per call, and the stored theme and the data-theme attribute
\* both name the theme of isDark.
C24_DarkMode ==
    /\ (themePC # "init" /\ toggles = 0)
          => isDark = (IF themeAtStart = Absent THEN prefersDark
                       ELSE themeAtStart = "dark")
    /\ (themePC = "idle" /\ themeQueue = 0)
          => /\ isDark = (IF toggles % 2 = 1
                          THEN ~initialIsDark(themeAtStart, prefersDark)
                          ELSE initialIsDark(themeAtStart, prefersDark))
             /\ ls_theme = (IF isDark THEN "dark" ELSE "light")
             /\ dataTheme = (IF isDark THEN "dark" ELSE "light")

\* two toggle() calls have been rendered together and their effect has run
C24_Witness ==
    /\ themePC = "idle"
    /\ themeQueue = 0
    /\ toggles = 3
    /\ themeAtStart = "dark"
    /\ ~isDark
    /\ ls_theme = "light"

(***************************************************************************)
(* Claims about the compiler (SpecWorker)                                  *)
(***************************************************************************)
\* C29: a compileContract call that has resolved holds the output compiled
\* from its own source under its own contract name.
C29_OwnOutput ==
    \A i \in CallIds :
        callPC[i] = "resolved"
            => /\ callResult[i].name = callInput[i].name
               /\ callResult[i].src = callInput[i].src

\* C30: every compileContract call that has started eventually resolves or
\* rejects.
C30_CallsSettle ==
    \A i \in CallIds :
        (callPC[i] \in {"waitInit", "listening"})
            ~> (callPC[i] \in {"resolved", "rejected"})

====
